---- MODULE Spec2Model ----
(***************************************************************************)
(* A model of the audio export of strudel-ai.                              *)
(*                                                                         *)
(* ExportManager (src/src/lib/ExportManager.ts): one manager object, the   *)
(* MediaRecorder objects its export() calls create, and the host's event   *)
(* loop delivering timers, animation frames, recorder events and decoder   *)
(* completions one task at a time.  The capture tap of Editor.tsx: its     *)
(* module-level state and the wrapper it installs as                       *)
(* AudioNode.prototype.connect.  The App component (handleExport and the   *)
(* export dialog) as the caller of both.  The pure functions of the       *)
(* export, the prompt handler with useChat, useHistory and the highlight   *)
(* controller each have their own variable and specification.              *)
(*                                                                         *)
(* One action is one task of the event loop together with the microtasks   *)
(* (promise continuations) it runs before the next task.                   *)
(***************************************************************************)
EXTENDS Integers, Sequences, FiniteSets, TLC

\* ---------------------------------------------------------------- bounds
\* export() calls made in one behaviour; call s creates recorder s.
MaxSessions == 2
\* animation-frame iterations of checkProgress that find elapsed < durationMs
MaxPolls == 1
\* fragments held in chunks at once
MaxChunks == 2
\* settings.cycles of every export() call
Cycles == 2

Sessions == 1 .. MaxSessions
\* this.recorder = null / this.mediaStreamDest = null
NULL == 0
DEST == 1

\* ------------------------------------------------- what export() rejects with
\* throw new Error('Recording tap not set up. ...')
ErrTapNotSet == "Recording tap not set up"
\* throw new Error('No audio recorded')
ErrNoAudio == "No audio recorded"
\* this.recorder.start(100) with this.recorder === null
ErrTypeError == "TypeError"
\* MediaRecorder.start() on a recorder whose state is not 'inactive'
ErrInvalidState == "InvalidStateError"

Errors == {ErrTapNotSet, ErrNoAudio, ErrTypeError, ErrInvalidState}

\* useState<ExportProgress | null>(null): no snapshot held
NoSnapshot == "null"

\* ExportProgress.phase, in the order of the union type
PhaseRank(p) ==
    CASE p = "preparing" -> 1
      [] p = "recording" -> 2
      [] p = "encoding" -> 3
      [] p = "complete" -> 4

\* durationMs in clock ticks: the clock advances one tick per cycle
DurationTicks == Cycles
\* the largest elapsed time a checkProgress run reads: one tick past the end
MaxElapsed == DurationTicks + 1

\* the optional field currentCycle left out of a snapshot
NoCycle == -1

\* Progress without Math.min: the percentage wraps around at 100.
ProgressWraps(e) == ((e * 100) \div DurationTicks) % 100

\* Math.min(100, (elapsed / durationMs) * 100), in whole percent
Progress(e) ==
    IF (e * 100) \div DurationTicks < 100
    THEN (e * 100) \div DurationTicks
    ELSE 100

\* Math.floor((elapsed / durationMs) * cycles)
CurrentCycle(e) == (e * Cycles) \div DurationTicks

\* { phase: 'preparing' | 'encoding' | 'complete', progress }
Plain(progress) == [progress |-> progress, currentCycle |-> NoCycle]

\* { phase: 'recording', progress, currentCycle, totalCycles: cycles }
Recording(progress, currentCycle) ==
    [progress |-> progress, currentCycle |-> currentCycle]

VARIABLES
    mediaStreamDest,  \* this.mediaStreamDest: NULL or DEST
    recorder,         \* this.recorder: NULL or the recorder (session id) held
    chunks,           \* this.chunks: each fragment is named by its recorder
    recState,         \* MediaRecorder.state per recorder; "none" = not created
    onstop,           \* recorder.onstop: the session whose promise it resolves
    flushPending,     \* stop() tasks queued on the recorder, not yet run
    pc,               \* where each export() call is suspended
    polls,            \* checkProgress iterations that rescheduled themselves
    elapsed,          \* Date.now() - startTime as checkProgress last read it
    snapshots,        \* the phases passed to onProgress, per call, in order
    details,          \* progress and currentCycle of the same snapshots
    blob,             \* the Blob built from chunks in onstop, per call
    result,           \* "pending", "archive" or the error the call rejected with
    disposedAt,       \* history: pc of the call when dispose() first hit it
    errorSeen,        \* history: the recorder raised an error event
    gotData,          \* history: the recorder delivered a non-empty fragment
    disposeStopped,   \* history: dispose() stopped an active recorder and no
                      \* export() has set up a recorder since
    exportProgress    \* the phase of the snapshot onProgress received last, as
                      \* the application's callback setExportProgress keeps it

\* The capture tap of Editor.tsx (module-level state and the connect wrapper).
VARIABLES
    audioContextRef,       \* NULL or CTX
    originalConnect,       \* NULL or the saved AudioNode.prototype.connect
    installs,              \* assignments made to AudioNode.prototype.connect
    isRecordingActive,
    recordingDestination,  \* NULL or the sink created by startRecording
    sinksCreated,          \* createMediaStreamDestination() calls so far
    graph,                 \* the destinations the source node is connected to
    last                   \* the latest call on the tap and what it returned

\* The application component (App): dialog state and handleExport runs.
VARIABLES
    showExportDialog,
    hpc                    \* where each run of handleExport is suspended

tapVars == <<audioContextRef, originalConnect, installs, isRecordingActive,
             recordingDestination, sinksCreated, graph, last>>
uiVars == <<showExportDialog, hpc>>

\* The pure functions of the export: the latest application of each, with
\* its inputs.
VARIABLES
    timing,                \* export()'s duration and boundary-wait arithmetic
    wav,                   \* encodeWav
    named                  \* sanitizeName

\* The hooks and controllers of the editor page: the state each one holds.
VARIABLES
    chat,                  \* useChat and the prompt handler of App
    hist,                  \* useHistory: the sessions and the active id
    hl                     \* the highlight controller of extensions.ts

hookVars == <<chat, hist, hl>>
componentVars == <<timing, wav, named, hookVars>>
outerVars == <<tapVars, uiVars, componentVars>>

exportVars == <<mediaStreamDest, recorder, chunks, recState, onstop,
                flushPending, pc, polls, elapsed, snapshots, details, blob,
                result, disposedAt, errorSeen, gotData, disposeStopped,
                exportProgress>>

\* the export() calls and everything they work on, without the sink binding
\* and the callback's cell
callVars == <<recorder, chunks, recState, onstop, flushPending, pc, polls,
              elapsed, snapshots, details, blob, result, disposedAt,
              errorSeen, gotData, disposeStopped>>

vars == <<exportVars, tapVars, uiVars, componentVars>>

recorderVars == <<recState, onstop, flushPending>>
historyVars == <<disposedAt, errorSeen, gotData, disposeStopped>>

\* const MAX_RETRIES = 2
MAX_RETRIES == 2
\* fixCode calls made for one prompt
MaxFixCalls == 3

\* useState<ChatState>({ isLoading: false, error: null, retryCount: 0 }),
\* isPlaying and lastPromptRef.current of App, and the one run of handleSendMessage: where it is
\* suspended (pc), chat.canRetry as the callbacks of that run hold it, and
\* what the run has done so far.
ChatInit ==
    [isLoading |-> FALSE, error |-> "null", retryCount |-> 0,
     isPlaying |-> FALSE, lastPrompt |-> "", pc |-> "idle", canRetry |-> TRUE,
     fixCalls |-> 0, evaluations |-> 0]

\* const MAX_HISTORY = 50
MAX_HISTORY == 50
\* createSession() calls in one behaviour, the one of loadSessions included;
\* crypto.randomUUID() gives call n the id n
MaxCreated == 2
\* entries in each history while the list holds more than one session
MaxSharedHistory == 2

\* code: 's("bd sd")', and the other text the editor and the generator give
InitialCode == "s(bd sd)"
Codes == {InitialCode, "s(hh*4)"}
\* createSession's default name (the time of day is left out) and the name
\* renameSession is called with
DefaultName == "Session"
SessionTitles == {"Beat"}

\* createSession(), without createdAt and updatedAt
CreateSession(id) ==
    [id |-> id, name |-> DefaultName, code |-> InitialCode,
     history |-> <<InitialCode>>, historyIndex |-> 0]

\* loadSessions() with nothing saved: { sessions: [initial], activeSessionId:
\* initial.id }; created counts the createSession() calls.
HistInit ==
    [sessions |-> <<CreateSession(1)>>, activeSessionId |-> 1, created |-> 1]
\* requestAnimationFrame calls of the controller in one behaviour; call n
\* returns the id n
MaxFrameRequests == 8

\* createHighlightController(view): scheduler = null, animationFrameId =
\* null, isRunning = false; highlightField.create() is Decoration.none.
\* pattern is scheduler.pattern of the one scheduler object; pending are the
\* frames requested from the host and neither run nor cancelled; stopped and
\* dispatchedSinceStop record that stop() was the last of start()/stop() and
\* that an update was dispatched since.
HlInit ==
    [scheduler |-> "null", pattern |-> FALSE, animationFrameId |-> NULL,
     isRunning |-> FALSE, highlights |-> {}, pending |-> {}, requested |-> 0,
     stopped |-> FALSE, dispatchedSinceStop |-> FALSE]

Init ==
    /\ mediaStreamDest = NULL
    /\ recorder = NULL
    /\ chunks = <<>>
    /\ recState = [r \in Sessions |-> "none"]
    /\ onstop = [r \in Sessions |-> NULL]
    /\ flushPending = [r \in Sessions |-> 0]
    /\ pc = [s \in Sessions |-> "idle"]
    /\ polls = [s \in Sessions |-> 0]
    /\ elapsed = [s \in Sessions |-> 0]
    /\ snapshots = [s \in Sessions |-> <<>>]
    /\ details = [s \in Sessions |-> <<>>]
    /\ blob = [s \in Sessions |-> <<>>]
    /\ result = [s \in Sessions |-> "pending"]
    /\ disposedAt = [s \in Sessions |-> "none"]
    /\ errorSeen = [r \in Sessions |-> FALSE]
    /\ gotData = [r \in Sessions |-> FALSE]
    /\ disposeStopped = FALSE
    /\ exportProgress = NoSnapshot
    /\ audioContextRef = NULL
    /\ originalConnect = NULL
    /\ installs = 0
    /\ isRecordingActive = FALSE
    /\ recordingDestination = NULL
    /\ sinksCreated = 0
    /\ graph = {}
    /\ last = [op |-> "none"]
    /\ showExportDialog = FALSE
    /\ hpc = [h \in Sessions |-> "idle"]
    /\ timing = [op |-> "none"]
    /\ wav = [op |-> "none"]
    /\ named = [op |-> "none"]
    /\ chat = ChatInit
    /\ hist = HistInit
    /\ hl = HlInit

\* The caller's side of "exactly one live session at a time": a call is live
\* from export() until it settles or dispose() cancels it.
Pending(s) == pc[s] \notin {"idle", "settled", "gone"}
Live(s) == Pending(s) /\ disposedAt[s] = "none"

\* onProgress?.(...) with the given phases, in order
Report(s, phases) == [snapshots EXCEPT ![s] = @ \o phases]
\* the progress and currentCycle fields of the same calls
ReportDetails(s, fields) == [details EXCEPT ![s] = @ \o fields]

\* an exception leaving export(): the promise rejects
Reject(s, err) ==
    /\ pc' = [pc EXCEPT ![s] = "settled"]
    /\ result' = [result EXCEPT ![s] = err]

\* setRecordingDestination(dest)
SetRecordingDestination ==
    /\ mediaStreamDest' = DEST
    /\ UNCHANGED <<recorder, chunks, recorderVars, pc, polls, elapsed,
                   snapshots, details, exportProgress, blob,
                   result, historyVars>>
    /\ UNCHANGED outerVars

\* A settled call leaves nothing behind in the program: its promise has been
\* delivered and its locals are unreachable.  When the next export() starts,
\* the records kept of settled calls (and of their recorders' events) are
\* dropped; the recorder objects themselves stay as they are.
Drop(f, initial) ==
    [t \in Sessions |-> IF pc[t] = "settled" THEN initial ELSE f[t]]

\* ExportBody with the sink check left out: the recorder is set up regardless.
ExportBodyNoSinkCheck(s) ==
    /\ snapshots' = [Drop(snapshots, <<>>) EXCEPT ![s] = <<"preparing">>]
    /\ details' = [Drop(details, <<>>) EXCEPT ![s] = <<Plain(0)>>]
    /\ exportProgress' = "preparing"
    /\ chunks' = <<>>
    /\ recorder' = s
    /\ recState' = [recState EXCEPT ![s] = "inactive"]
    /\ pc' = [Drop(pc, "gone") EXCEPT ![s] = "waiting"]
    /\ result' = Drop(result, "pending")
    /\ disposeStopped' = FALSE
    /\ polls' = Drop(polls, 0)
    /\ elapsed' = Drop(elapsed, 0)
    /\ blob' = Drop(blob, <<>>)
    /\ disposedAt' = Drop(disposedAt, "none")
    /\ errorSeen' = Drop(errorSeen, FALSE)
    /\ gotData' = Drop(gotData, FALSE)
    /\ UNCHANGED <<mediaStreamDest, onstop, flushPending>>

\* export(), from the call to the first suspension (await this.wait(...))
ExportBody(s) ==
    /\ snapshots' = [Drop(snapshots, <<>>) EXCEPT ![s] = <<"preparing">>]
    /\ details' = [Drop(details, <<>>) EXCEPT ![s] = <<Plain(0)>>]
    /\ exportProgress' = "preparing"
    /\ IF mediaStreamDest = NULL
       THEN /\ pc' = [Drop(pc, "gone") EXCEPT ![s] = "settled"]
            /\ result' = [Drop(result, "pending") EXCEPT ![s] = ErrTapNotSet]
            /\ UNCHANGED <<recorder, chunks, recState, disposeStopped>>
       ELSE /\ chunks' = <<>>
            /\ recorder' = s
            /\ recState' = [recState EXCEPT ![s] = "inactive"]
            /\ pc' = [Drop(pc, "gone") EXCEPT ![s] = "waiting"]
            /\ result' = Drop(result, "pending")
            /\ disposeStopped' = FALSE
    /\ polls' = Drop(polls, 0)
    /\ elapsed' = Drop(elapsed, 0)
    /\ blob' = Drop(blob, <<>>)
    /\ disposedAt' = Drop(disposedAt, "none")
    /\ errorSeen' = Drop(errorSeen, FALSE)
    /\ gotData' = Drop(gotData, FALSE)
    /\ UNCHANGED <<mediaStreamDest, onstop, flushPending>>

\* export() called by a caller that keeps one call pending at a time: every
\* earlier call has settled.
Export(s) ==
    /\ pc[s] = "idle"
    /\ \A t \in Sessions : t < s => pc[t] \in {"settled", "gone"}
    /\ ExportBody(s)
    /\ UNCHANGED outerVars

\* export() called after dispose() cancelled the earlier calls, while one of
\* them is still pending.
ExportAfterDispose(s) ==
    /\ pc[s] = "idle"
    /\ \A t \in Sessions : t < s => pc[t] # "idle"
    /\ \A t \in Sessions : ~Live(t)
    /\ \E t \in Sessions : Pending(t)
    /\ ExportBody(s)
    /\ UNCHANGED outerVars

\* MediaRecorder.stop() on a recording recorder: the state is 'inactive' at
\* once; a queued task later fires dataavailable and then stop.
StopRecorder(r) ==
    /\ recState' = [recState EXCEPT ![r] = "inactive"]
    /\ flushPending' = [flushPending EXCEPT ![r] = @ + 1]

\* export() resumed by the boundary-wait timer: report, start the recorder,
\* run the first checkProgress() and suspend on the animation frame.
WaitDone(s) ==
    /\ pc[s] = "waiting"
    /\ IF recorder = NULL
       THEN /\ snapshots' = Report(s, <<"recording">>)
            /\ details' = ReportDetails(s, <<Recording(0, 0)>>)
            /\ exportProgress' = "recording"
            /\ Reject(s, ErrTypeError)
            /\ UNCHANGED recState
       ELSE IF recState[recorder] = "recording"
       THEN /\ snapshots' = Report(s, <<"recording">>)
            /\ details' = ReportDetails(s, <<Recording(0, 0)>>)
            /\ exportProgress' = "recording"
            /\ Reject(s, ErrInvalidState)
            /\ UNCHANGED recState
       ELSE /\ snapshots' = Report(s, <<"recording", "recording">>)
            /\ details' = ReportDetails(s,
                    <<Recording(0, 0),
                      Recording(Progress(elapsed[s]), CurrentCycle(elapsed[s]))>>)
            /\ exportProgress' = "recording"
            /\ recState' = [recState EXCEPT ![recorder] = "recording"]
            /\ pc' = [pc EXCEPT ![s] = "polling"]
            /\ UNCHANGED result
    /\ UNCHANGED <<mediaStreamDest, recorder, chunks, onstop, flushPending,
                   polls, elapsed, blob, historyVars>>
    /\ UNCHANGED outerVars

\* The phase reported between stopRecording() and the audioBuffer check.
PhaseAfterStop == "encoding"

\* The rest of export() once stopRecording() resolved with null.
NoAudioBuffer(s, reported, fields) ==
    /\ snapshots' = Report(s, reported \o <<PhaseAfterStop>>)
    /\ details' = ReportDetails(s, fields \o <<Plain(50)>>)
    /\ exportProgress' = PhaseAfterStop
    /\ Reject(s, ErrNoAudio)

\* stopRecording(), called by export() when the polling promise resolves.
StopRecording(s, lastFields) ==
    IF recorder = NULL \/ recState[recorder] = "inactive"
    THEN /\ NoAudioBuffer(s, <<"recording">>, <<lastFields>>)
         /\ UNCHANGED <<recState, onstop, flushPending>>
    ELSE /\ snapshots' = Report(s, <<"recording">>)
         /\ details' = ReportDetails(s, <<lastFields>>)
         /\ exportProgress' = "recording"
         /\ onstop' = [onstop EXCEPT ![recorder] = s]
         /\ StopRecorder(recorder)
         /\ pc' = [pc EXCEPT ![s] = "stopping"]
         /\ UNCHANGED result

\* CheckProgress resolving one tick before the target duration is reached.
CheckProgressEarly(s, e) ==
    /\ pc[s] = "polling"
    /\ e >= elapsed[s]
    /\ elapsed' = [elapsed EXCEPT ![s] = e]
    /\ IF e >= DurationTicks - 1
       THEN /\ StopRecording(s, Recording(Progress(e), CurrentCycle(e)))
            /\ UNCHANGED polls
       ELSE /\ polls[s] < MaxPolls
            /\ polls' = [polls EXCEPT ![s] = @ + 1]
            /\ snapshots' = Report(s, <<"recording">>)
            /\ details' = ReportDetails(s,
                    <<Recording(Progress(e), CurrentCycle(e))>>)
            /\ exportProgress' = "recording"
            /\ UNCHANGED <<recState, onstop, flushPending, pc, result>>
    /\ UNCHANGED <<mediaStreamDest, recorder, chunks, blob, historyVars>>
    /\ UNCHANGED outerVars

\* One animation-frame run of checkProgress that reads e = Date.now() -
\* startTime: report, then either reschedule (elapsed < durationMs) or
\* resolve, which lets export() call stopRecording().  The clock does not run
\* backwards between two runs.
CheckProgress(s, e) ==
    /\ pc[s] = "polling"
    /\ e >= elapsed[s]
    /\ elapsed' = [elapsed EXCEPT ![s] = e]
    /\ IF e >= DurationTicks
       THEN /\ StopRecording(s, Recording(Progress(e), CurrentCycle(e)))
            /\ UNCHANGED polls
       ELSE /\ polls[s] < MaxPolls
            /\ polls' = [polls EXCEPT ![s] = @ + 1]
            /\ snapshots' = Report(s, <<"recording">>)
            /\ details' = ReportDetails(s,
                    <<Recording(Progress(e), CurrentCycle(e))>>)
            /\ exportProgress' = "recording"
            /\ UNCHANGED <<recState, onstop, flushPending, pc, result>>
    /\ UNCHANGED <<mediaStreamDest, recorder, chunks, blob, historyVars>>
    /\ UNCHANGED outerVars

\* recorder.ondataavailable: this.chunks after an event of the given size
OnDataAvailable(r, size) ==
    IF size > 0 THEN Append(chunks, r) ELSE chunks

\* A timeslice dataavailable event of a recording recorder.
RecorderData(r, size) ==
    /\ recState[r] = "recording"
    /\ size > 0 => Len(chunks) < MaxChunks
    /\ chunks' = OnDataAvailable(r, size)
    /\ gotData' = [gotData EXCEPT ![r] = @ \/ size > 0]
    /\ UNCHANGED <<mediaStreamDest, recorder, recorderVars, pc, polls,
                   elapsed, snapshots, details, exportProgress, blob, result,
                   disposedAt, errorSeen, disposeStopped>>
    /\ UNCHANGED outerVars

\* recorder.onerror: logs.  The host may also inactivate the recorder, which
\* queues the final dataavailable and stop events.
RecorderError(r, inactivates) ==
    /\ recState[r] = "recording"
    /\ errorSeen' = [errorSeen EXCEPT ![r] = TRUE]
    /\ IF inactivates
       THEN StopRecorder(r)
       ELSE UNCHANGED <<recState, flushPending>>
    /\ UNCHANGED <<mediaStreamDest, recorder, chunks, onstop, pc, polls,
                   elapsed, snapshots, details, exportProgress, blob, result,
                   disposedAt, gotData, disposeStopped>>
    /\ UNCHANGED outerVars

\* recorder.onstop as installed by stopRecording(), run for session s with
\* this.chunks = cs; a promise already resolved ignores a second resolve.
OnStop(s, cs) ==
    IF pc[s] # "stopping"
    THEN UNCHANGED <<pc, snapshots, details, exportProgress, blob, result>>
    ELSE IF Len(cs) = 0
    THEN /\ NoAudioBuffer(s, <<>>, <<>>)
         /\ UNCHANGED blob
    ELSE /\ blob' = [blob EXCEPT ![s] = cs]
         /\ pc' = [pc EXCEPT ![s] = "decoding"]
         /\ UNCHANGED <<snapshots, details, exportProgress, result>>

\* The task queued by stop(): the final dataavailable event, then stop.
RecorderFlush(r, size) ==
    /\ flushPending[r] > 0
    /\ size > 0 => Len(chunks) < MaxChunks
    /\ flushPending' = [flushPending EXCEPT ![r] = @ - 1]
    /\ chunks' = OnDataAvailable(r, size)
    /\ gotData' = [gotData EXCEPT ![r] = @ \/ size > 0]
    /\ IF onstop[r] = NULL
       THEN UNCHANGED <<pc, snapshots, details, exportProgress, blob, result>>
       ELSE OnStop(onstop[r], chunks')
    /\ UNCHANGED <<mediaStreamDest, recorder, recState, onstop, polls, elapsed,
                   disposedAt, errorSeen, disposeStopped>>
    /\ UNCHANGED outerVars

\* DecodeDone reporting 'complete' ahead of the second encoding checkpoint.
DecodeDoneCompleteEarly(s, decoded) ==
    /\ pc[s] = "decoding"
    /\ IF decoded
       THEN /\ snapshots' = Report(s, <<PhaseAfterStop, "complete", "encoding">>)
            /\ details' = ReportDetails(s, <<Plain(50), Plain(100), Plain(80)>>)
            /\ exportProgress' = "encoding"
            /\ pc' = [pc EXCEPT ![s] = "zipping"]
            /\ UNCHANGED result
       ELSE NoAudioBuffer(s, <<>>, <<>>)
    /\ UNCHANGED <<mediaStreamDest, recorder, chunks, recorderVars, polls,
                   elapsed, blob, historyVars>>
    /\ UNCHANGED outerVars

\* blobToAudioBuffer settles; export() goes on to the ZIP's generateAsync.
DecodeDone(s, decoded) ==
    /\ pc[s] = "decoding"
    /\ IF decoded
       THEN /\ snapshots' = Report(s, <<PhaseAfterStop, "encoding", "complete">>)
            /\ details' = ReportDetails(s, <<Plain(50), Plain(80), Plain(100)>>)
            /\ exportProgress' = "complete"
            /\ pc' = [pc EXCEPT ![s] = "zipping"]
            /\ UNCHANGED result
       ELSE NoAudioBuffer(s, <<>>, <<>>)
    /\ UNCHANGED <<mediaStreamDest, recorder, chunks, recorderVars, polls,
                   elapsed, blob, historyVars>>
    /\ UNCHANGED outerVars

\* ZipDone with the archive generation failing: export() rejects.
ZipDoneRejects(s) ==
    /\ pc[s] = "zipping"
    /\ Reject(s, ErrNoAudio)
    /\ UNCHANGED <<mediaStreamDest, recorder, chunks, recorderVars, polls,
                   elapsed, snapshots, details, exportProgress, blob,
                   historyVars>>
    /\ UNCHANGED outerVars

\* zip.generateAsync resolves: export() resolves with the archive.
ZipDone(s) ==
    /\ pc[s] = "zipping"
    /\ pc' = [pc EXCEPT ![s] = "settled"]
    /\ result' = [result EXCEPT ![s] = "archive"]
    /\ UNCHANGED <<mediaStreamDest, recorder, chunks, recorderVars, polls,
                   elapsed, snapshots, details, exportProgress, blob,
                   historyVars>>
    /\ UNCHANGED outerVars

\* dispose() without its last statement, this.chunks = [].
DisposeKeepsChunks ==
    /\ IF recorder # NULL /\ recState[recorder] # "inactive"
       THEN /\ StopRecorder(recorder)
            /\ disposeStopped' = TRUE
       ELSE UNCHANGED <<recState, flushPending, disposeStopped>>
    /\ mediaStreamDest' = NULL
    /\ recorder' = NULL
    /\ disposedAt' = [s \in Sessions |->
                        IF disposedAt[s] = "none" /\ Pending(s)
                        THEN pc[s] ELSE disposedAt[s]]
    /\ UNCHANGED <<chunks, onstop, pc, polls, elapsed, snapshots, details,
                   exportProgress, blob, result, errorSeen, gotData>>
    /\ UNCHANGED outerVars

\* dispose()
Dispose ==
    /\ IF recorder # NULL /\ recState[recorder] # "inactive"
       THEN /\ StopRecorder(recorder)
            /\ disposeStopped' = TRUE
       ELSE UNCHANGED <<recState, flushPending, disposeStopped>>
    /\ mediaStreamDest' = NULL
    /\ recorder' = NULL
    /\ chunks' = <<>>
    /\ disposedAt' = [s \in Sessions |->
                        IF disposedAt[s] = "none" /\ Pending(s)
                        THEN pc[s] ELSE disposedAt[s]]
    /\ UNCHANGED <<onstop, pc, polls, elapsed, snapshots, details,
                   exportProgress, blob, result, errorSeen, gotData>>
    /\ UNCHANGED outerVars

Next ==
    \/ SetRecordingDestination
    \/ Dispose
    \/ \E s \in Sessions : Export(s)
    \/ \E s \in Sessions : WaitDone(s)
    \/ \E s \in Sessions, e \in 0 .. MaxElapsed : CheckProgress(s, e)
    \/ \E r \in Sessions, size \in {0, 1} : RecorderData(r, size)
    \/ \E r \in Sessions, inactivates \in BOOLEAN : RecorderError(r, inactivates)
    \/ \E r \in Sessions, size \in {0, 1} : RecorderFlush(r, size)
    \/ \E s \in Sessions, decoded \in BOOLEAN : DecodeDone(s, decoded)
    \/ \E s \in Sessions : ZipDone(s)

\* The caller of spec section 5: at most one export() call pending at a time.
Spec == Init /\ [][Next]_vars

NextOverlap ==
    \/ Next
    \/ \E s \in Sessions : ExportAfterDispose(s)

\* A caller that also starts a new export() once dispose() has cancelled the
\* pending one.
SpecOverlap == Init /\ [][NextOverlap]_vars

\* The event loop runs the task that settles generateAsync's promise: a call
\* that reached 'return zip.generateAsync(...)' is not left pending forever.
SpecLive == Spec /\ \A s \in Sessions : WF_vars(ZipDone(s))

\* The host completes what export() waits for: the boundary timer fires, an
\* animation frame runs checkProgress at a time when the target duration has
\* elapsed, the task queued by stop() fires the recorder's last events, the
\* decoder settles and generateAsync resolves.
HostCompletes(s) ==
    /\ WF_vars(WaitDone(s))
    /\ WF_vars(\E e \in DurationTicks .. MaxElapsed : CheckProgress(s, e))
    /\ WF_vars(\E size \in {0, 1} : RecorderFlush(s, size))
    /\ WF_vars(\E decoded \in BOOLEAN : DecodeDone(s, decoded))
    /\ WF_vars(ZipDone(s))

SpecFair == Spec /\ \A s \in Sessions : HostCompletes(s)

\* SpecOverlap with the host completing what every call waits for.
SpecOverlapFair == SpecOverlap /\ \A s \in Sessions : HostCompletes(s)

\* ---------------------------------------------------------- the capture tap
\* sinks startRecording creates in one behaviour
MaxSinks == 2

\* audioContextRef once createEvalContext has stored getAudioContext()
CTX == 1
\* AudioNode.prototype.connect as the host defines it
NATIVE == 1

\* what a connect call can name as its destination
HW == <<"destination", 0>>
NODE == <<"node", 0>>
PARAM == <<"param", 0>>
SinkNode(k) == <<"sink", k>>
\* an argument that is undefined, passed explicitly or left out
UNDEF == -1
\* the value undefined as a call's result
NOVALUE == <<"undefined", 0>>

\* the argument lists callers pass to connect: a destination, then up to two
\* indices, each 0 or undefined
CallerArgs ==
    LET D == {HW, NODE, PARAM}
        I == {0, UNDEF}
    IN  {<<d>> : d \in D}
        \cup {<<d, o>> : d \in D, o \in I}
        \cup {<<d[1], d[2], d[3]>> : d \in D \X I \X I}

\* The host's connect, by Web IDL overload resolution on the number of
\* arguments passed (an explicit undefined counts): with three arguments only
\* connect(AudioNode, output, input) is a candidate, so an AudioParam
\* destination is a TypeError; with one or two, the destination's type picks
\* the overload, and connect(AudioParam, output) returns undefined.  An
\* undefined index takes its default, 0.
NativeConnect(args) ==
    IF args[1] = PARAM /\ Len(args) = 3
    THEN [threw |-> TRUE, value |-> NOVALUE, added |-> {}]
    ELSE [threw |-> FALSE,
          value |-> IF args[1] = PARAM THEN NOVALUE ELSE args[1],
          added |-> {args[1]}]

\* originalConnect.call(this, destination, outputIndex, inputIndex): the
\* wrapper's three formal parameters, undefined where the caller passed none
Forwarded(args) ==
    <<args[1],
      IF Len(args) >= 2 THEN args[2] ELSE UNDEF,
      IF Len(args) >= 3 THEN args[3] ELSE UNDEF>>

\* the condition under which the wrapper mirrors a connection
Mirrors(args) ==
    /\ isRecordingActive
    /\ recordingDestination # NULL
    /\ audioContextRef # NULL
    /\ args[1] = HW

\* The wrapper with the mirroring call outside try/catch.
WrapperNoCatch(args, mirrorFails) ==
    LET first == NativeConnect(Forwarded(args))
        mirrored == Mirrors(args) /\ ~first.threw
        extra == IF mirrored /\ ~mirrorFails
                 THEN {SinkNode(recordingDestination)} ELSE {}
    IN  /\ graph' = graph \cup first.added \cup extra
        /\ last' = [op |-> "connect", wrapped |-> TRUE, args |-> args,
                    active |-> isRecordingActive,
                    calls |-> IF mirrored
                              THEN <<Forwarded(args),
                                     <<SinkNode(recordingDestination)>>>>
                              ELSE <<Forwarded(args)>>,
                    threw |-> first.threw \/ (mirrored /\ mirrorFails),
                    value |-> IF mirrored /\ mirrorFails
                              THEN NOVALUE ELSE first.value,
                    added |-> first.added \cup extra,
                    mirrorFailed |-> mirrored /\ mirrorFails]

\* The function patchAudioConnect installs as AudioNode.prototype.connect:
\* the original call (an exception of it leaves the wrapper), then the
\* mirroring call inside try/catch, then return result.
Wrapper(args, mirrorFails) ==
    LET first == NativeConnect(Forwarded(args))
        mirrored == Mirrors(args) /\ ~first.threw
        extra == IF mirrored /\ ~mirrorFails
                 THEN {SinkNode(recordingDestination)} ELSE {}
    IN  /\ graph' = graph \cup first.added \cup extra
        /\ last' = [op |-> "connect", wrapped |-> TRUE, args |-> args,
                    active |-> isRecordingActive,
                    calls |-> IF mirrored
                              THEN <<Forwarded(args),
                                     <<SinkNode(recordingDestination)>>>>
                              ELSE <<Forwarded(args)>>,
                    threw |-> first.threw,
                    value |-> first.value,
                    added |-> first.added \cup extra,
                    mirrorFailed |-> mirrored /\ mirrorFails]

\* node.connect(...args) by the audio engine; the host makes the mirroring
\* call fail or not.
Connect(args, mirrorFails) ==
    /\ IF originalConnect = NULL
       THEN LET r == NativeConnect(args)
            IN  /\ graph' = graph \cup r.added
                /\ last' = [op |-> "connect", wrapped |-> FALSE, args |-> args,
                            active |-> isRecordingActive, calls |-> <<args>>,
                            threw |-> r.threw, value |-> r.value,
                            added |-> r.added, mirrorFailed |-> FALSE]
       ELSE Wrapper(args, mirrorFails)
    /\ UNCHANGED <<audioContextRef, originalConnect, installs,
                   isRecordingActive, recordingDestination, sinksCreated>>
    /\ UNCHANGED <<exportVars, uiVars>>
    /\ UNCHANGED componentVars

\* createEvalContext: audioContextRef = getAudioContext()
CreateEvalContext ==
    /\ audioContextRef' = CTX
    /\ last' = [op |-> "createEvalContext"]
    /\ UNCHANGED <<originalConnect, installs, isRecordingActive,
                   recordingDestination, sinksCreated, graph>>
    /\ UNCHANGED <<exportVars, uiVars>>
    /\ UNCHANGED componentVars

\* patchAudioConnect without its first line: installs on every call.
PatchAlways ==
    /\ originalConnect' = NATIVE
    /\ installs' = installs + 1

\* patchAudioConnect()
Patch ==
    IF originalConnect # NULL
    THEN UNCHANGED <<originalConnect, installs>>
    ELSE /\ originalConnect' = NATIVE
         /\ installs' = installs + 1

\* patchAudioConnect() called on its own
PatchAudioConnect ==
    /\ Patch
    /\ last' = [op |-> "patchAudioConnect"]
    /\ UNCHANGED <<audioContextRef, isRecordingActive, recordingDestination,
                   sinksCreated, graph>>
    /\ UNCHANGED <<exportVars, uiVars>>
    /\ UNCHANGED componentVars

\* startRecording with the sink stored but the tap left inactive.
StartRecordingInactive ==
    IF audioContextRef = NULL
    THEN /\ last' = [op |-> "startRecording", value |-> NULL]
         /\ UNCHANGED <<originalConnect, installs, isRecordingActive,
                        recordingDestination, sinksCreated>>
    ELSE /\ sinksCreated < MaxSinks
         /\ sinksCreated' = sinksCreated + 1
         /\ recordingDestination' = sinksCreated + 1
         /\ UNCHANGED isRecordingActive
         /\ Patch
         /\ last' = [op |-> "startRecording", value |-> sinksCreated + 1]

\* the handle's startRecording(): what it does to the tap and returns
StartRecording ==
    IF audioContextRef = NULL
    THEN /\ last' = [op |-> "startRecording", value |-> NULL]
         /\ UNCHANGED <<originalConnect, installs, isRecordingActive,
                        recordingDestination, sinksCreated>>
    ELSE /\ sinksCreated < MaxSinks
         /\ sinksCreated' = sinksCreated + 1
         /\ recordingDestination' = sinksCreated + 1
         /\ isRecordingActive' = TRUE
         /\ Patch
         /\ last' = [op |-> "startRecording", value |-> sinksCreated + 1]

\* startRecording() called on the handle
EditorStartRecording ==
    /\ StartRecording
    /\ UNCHANGED <<audioContextRef, graph>>
    /\ UNCHANGED <<exportVars, uiVars>>
    /\ UNCHANGED componentVars

\* the handle's stopRecording(): the wrapper stays installed
EditorStopRecording ==
    /\ isRecordingActive' = FALSE
    /\ recordingDestination' = NULL
    /\ last' = [op |-> "stopRecording"]
    /\ UNCHANGED <<audioContextRef, originalConnect, installs, sinksCreated,
                   graph>>
    /\ UNCHANGED <<exportVars, uiVars>>
    /\ UNCHANGED componentVars

NextTap ==
    \/ CreateEvalContext
    \/ PatchAudioConnect
    \/ EditorStartRecording
    \/ EditorStopRecording
    \/ \E args \in CallerArgs, mirrorFails \in BOOLEAN :
            Connect(args, mirrorFails)

\* The tap driven by its callers in any order.
SpecTap == Init /\ [][NextTap]_vars

\* --------------------------------------------------------- the application
\* ExportDialog: isExporting = progress !== null && progress.phase !== 'complete'
DialogIsExporting ==
    exportProgress # NoSnapshot /\ exportProgress # "complete"

\* The export() call of run h has settled and the rest of handleExport, a
\* continuation of that promise, has not run yet.  It runs before any other
\* task.
Continuation(h) == hpc[h] = "exporting" /\ pc[h] = "settled"
Quiet == \A h \in Sessions : ~Continuation(h)

\* Controls' export button (disabled while exportProgress !== null):
\* handleOpenExport
OpenExport ==
    /\ Quiet
    /\ exportProgress = NoSnapshot
    /\ showExportDialog' = TRUE
    /\ UNCHANGED <<exportVars, tapVars, hpc>>
    /\ UNCHANGED componentVars

\* the dialog's close button or backdrop, offered while !isExporting:
\* handleCloseExport
CloseExport ==
    /\ Quiet
    /\ showExportDialog
    /\ ~DialogIsExporting
    /\ showExportDialog' = FALSE
    /\ exportProgress' = NoSnapshot
    /\ UNCHANGED <<mediaStreamDest, callVars, tapVars, hpc>>
    /\ UNCHANGED componentVars

\* the dialog's Export button, rendered while !isExporting: handleExport up
\* to its first await (the 100 ms timer).  The editor is mounted and its
\* scheduler available.
ClickExport(h) ==
    /\ Quiet
    /\ showExportDialog
    /\ ~DialogIsExporting
    /\ hpc[h] = "idle"
    /\ \A g \in Sessions : g < h => hpc[g] # "idle"
    /\ StartRecording
    /\ IF audioContextRef = NULL
       THEN /\ hpc' = [hpc EXCEPT ![h] = "done"]
            /\ UNCHANGED mediaStreamDest
       ELSE /\ hpc' = [hpc EXCEPT ![h] = "timer"]
            /\ mediaStreamDest' = recordingDestination'
    /\ UNCHANGED <<callVars, exportProgress, audioContextRef, graph,
                   showExportDialog>>
    /\ UNCHANGED componentVars

\* the 100 ms timer fires: handleExport calls evaluate() and awaits it
HandleExportTimer(h) ==
    /\ Quiet
    /\ hpc[h] = "timer"
    /\ hpc' = [hpc EXCEPT ![h] = "evaluating"]
    /\ UNCHANGED <<exportVars, tapVars, showExportDialog>>
    /\ UNCHANGED componentVars

\* evaluate() settles: handleExport calls export() and awaits its promise
HandleExportEvaluated(h) ==
    /\ Quiet
    /\ hpc[h] = "evaluating"
    /\ pc[h] = "idle"
    /\ ExportBody(h)
    /\ hpc' = [hpc EXCEPT ![h] = "exporting"]
    /\ UNCHANGED <<tapVars, showExportDialog>>
    /\ UNCHANGED componentVars

\* the rest of handleExport once export() settled: stopRecording(), then the
\* download and the 1 s timer (resolved), or setExportProgress(null)
\* (rejected)
HandleExportSettled(h) ==
    /\ Continuation(h)
    /\ isRecordingActive' = FALSE
    /\ recordingDestination' = NULL
    /\ last' = [op |-> "stopRecording"]
    /\ IF result[h] = "archive"
       THEN /\ hpc' = [hpc EXCEPT ![h] = "closing"]
            /\ UNCHANGED exportProgress
       ELSE /\ hpc' = [hpc EXCEPT ![h] = "done"]
            /\ exportProgress' = NoSnapshot
    /\ UNCHANGED <<mediaStreamDest, callVars, audioContextRef,
                   originalConnect, installs, sinksCreated, graph,
                   showExportDialog>>
    /\ UNCHANGED componentVars

\* the 1 s timer set after the download
CloseTimer(h) ==
    /\ Quiet
    /\ hpc[h] = "closing"
    /\ hpc' = [hpc EXCEPT ![h] = "done"]
    /\ showExportDialog' = FALSE
    /\ exportProgress' = NoSnapshot
    /\ UNCHANGED <<mediaStreamDest, callVars, tapVars>>
    /\ UNCHANGED componentVars

\* The application: user clicks, timers, and the events of the export()
\* calls handleExport made.  App never calls dispose().  Recorder error
\* events, which the orchestrator only logs, are left to Spec.
NextApp ==
    \/ OpenExport
    \/ CloseExport
    \/ \E h \in Sessions : ClickExport(h)
    \/ \E h \in Sessions : HandleExportTimer(h)
    \/ \E h \in Sessions : HandleExportEvaluated(h)
    \/ \E h \in Sessions : HandleExportSettled(h)
    \/ \E h \in Sessions : CloseTimer(h)
    \/ Quiet /\ CreateEvalContext
    \/ \E s \in Sessions : Quiet /\ WaitDone(s)
    \/ \E s \in Sessions, e \in 0 .. MaxElapsed : Quiet /\ CheckProgress(s, e)
    \/ \E r \in Sessions, size \in {0, 1} : Quiet /\ RecorderData(r, size)
    \/ \E r \in Sessions, size \in {0, 1} : Quiet /\ RecorderFlush(r, size)
    \/ \E s \in Sessions, decoded \in BOOLEAN : Quiet /\ DecodeDone(s, decoded)
    \/ \E s \in Sessions : Quiet /\ ZipDone(s)

SpecApp == Init /\ [][NextApp]_vars

\* The event loop runs what run h of handleExport and its export() call wait
\* for: the 100 ms timer, evaluate() settling, the continuation of export()'s
\* promise, the 1 s timer, and the host steps of HostCompletes.
AppCompletes(h) ==
    /\ WF_vars(HandleExportTimer(h))
    /\ WF_vars(HandleExportEvaluated(h))
    /\ WF_vars(HandleExportSettled(h))
    /\ WF_vars(CloseTimer(h))
    /\ WF_vars(Quiet /\ WaitDone(h))
    /\ WF_vars(\E e \in DurationTicks .. MaxElapsed : Quiet /\ CheckProgress(h, e))
    /\ WF_vars(\E size \in {0, 1} : Quiet /\ RecorderFlush(h, size))
    /\ WF_vars(\E decoded \in BOOLEAN : Quiet /\ DecodeDone(h, decoded))
    /\ WF_vars(Quiet /\ ZipDone(h))

SpecAppFair == SpecApp /\ \A h \in Sessions : AppCompletes(h)

\* ------------------------------------------ export(): durations and the wait
\* Exact arithmetic: cps and scheduler.now() in tenths, times in milliseconds.
\* the largest scheduler.now() drawn, in tenths of a cycle
MaxNowTenths == 40
\* the largest settings.cycles drawn
MaxCycles == 4
\* scheduler.cps || 0.5
DefaultCpsTenths == 5

\* scheduler.cps as export() may find it: undefined, 0, or 0.5, 1, 2 cycles
\* per second
CpsValues == {UNDEF, 0, 5, 10, 20}

\* CpsOrDefault with a default of one cycle per second.
CpsOrOne(cps) == IF cps = UNDEF \/ cps = 0 THEN 10 ELSE cps

\* const cps = scheduler.cps || 0.5: undefined and 0 are falsy
CpsOrDefault(cps) == IF cps = UNDEF \/ cps = 0 THEN DefaultCpsTenths ELSE cps

\* const cycleDuration = 1 / cps, in ms
CycleDurationMs(cps) == 10000 \div CpsOrDefault(cps)

\* const totalDuration = cycles * cycleDuration, in ms
TotalDurationMs(cps, cycles) == cycles * CycleDurationMs(cps)

\* NextCycle taking the cycle after the current one, also on a boundary.
NextCycleAfter(now) == (now \div 10 + 1) * 10

\* const nextCycle = Math.ceil(currentCycle), in tenths
NextCycle(now) == ((now + 9) \div 10) * 10

\* waitTime = (nextCycle - currentCycle) * cycleDuration;
\* this.wait(Math.max(0, waitTime * 1000)): the delay in ms
WaitMs(cps, now) ==
    LET waitTime == ((NextCycle(now) - now) * CycleDurationMs(cps)) \div 10
    IN  IF waitTime > 0 THEN waitTime ELSE 0

\* export() computing its durations with scheduler.cps = cps and
\* scheduler.now() = now, for settings.cycles = cycles
ExportTiming(cps, now, cycles) ==
    /\ timing' = [op |-> "export", cps |-> cps, now |-> now, cycles |-> cycles,
                  cycleDurationMs |-> CycleDurationMs(cps),
                  totalDurationMs |-> TotalDurationMs(cps, cycles),
                  waitMs |-> WaitMs(cps, now)]
    /\ UNCHANGED <<exportVars, tapVars, uiVars, wav, named, hookVars>>

NextTiming ==
    \E cps \in CpsValues, now \in 0 .. MaxNowTenths, cycles \in 1 .. MaxCycles :
        ExportTiming(cps, now, cycles)

SpecTiming == Init /\ [][NextTiming]_vars

\* ------------------------------------------------------ wavEncoder.ts
\* Sample values are exact: a sample x stands for x / Unit.  Byte views are
\* sequences of 0 .. 255; the byte at offset k is element k + 1.
\* the largest audioBuffer.numberOfChannels drawn
MaxChannels == 2
\* the largest audioBuffer.length (frames) drawn
MaxFrames == 2
\* one, in sample units
Unit == 65536
\* the Float32Array element NaN
NaN == 8 * Unit

\* audioBuffer.sampleRate
SampleRates == {8000, 44100, 48000}

\* Float32Array elements: 0, 1, -1, 1.5, -2, 0.5, -0.5, a little above and
\* below 0, a little beyond 1 and -1, and NaN
SampleValues ==
    <<0, Unit, -Unit, Unit + Unit \div 2, -2 * Unit, Unit \div 2,
      -(Unit \div 2), 3, -3, Unit + 1, -(Unit + 1), 1, NaN>>

\* An AudioBuffer of the given shape whose samples run through SampleValues
\* from position start on, channel after channel.
AudioBufferOf(numChannels, length, sampleRate, start) ==
    [numberOfChannels |-> numChannels,
     length |-> length,
     sampleRate |-> sampleRate,
     channelData |->
        [c \in 0 .. numChannels - 1 |->
            [i \in 1 .. length |->
                SampleValues[((start + c * length + i - 1)
                                % Len(SampleValues)) + 1]]]]

AudioBuffers ==
    {AudioBufferOf(n, l, r, start) :
        n \in 1 .. MaxChannels, l \in 0 .. MaxFrames, r \in SampleRates,
        start \in 0 .. Len(SampleValues) - 1}

\* DataView.setUint8
SetUint8(view, offset, value) ==
    [view EXCEPT ![offset + 1] = value % 256]

\* SetUint32 writing the most significant byte first.
SetUint32BigEndian(view, offset, value) ==
    [view EXCEPT ![offset + 4] = value % 256,
                 ![offset + 3] = (value \div 256) % 256,
                 ![offset + 2] = (value \div 65536) % 256,
                 ![offset + 1] = (value \div 16777216) % 256]

\* DataView.setUint32(offset, value, true): the four low bytes of the value
\* (the value modulo 2^32), little-endian
SetUint32(view, offset, value) ==
    [view EXCEPT ![offset + 1] = value % 256,
                 ![offset + 2] = (value \div 256) % 256,
                 ![offset + 3] = (value \div 65536) % 256,
                 ![offset + 4] = (value \div 16777216) % 256]

\* DataView.setUint16(offset, value, true): modulo 2^16, little-endian
SetUint16(view, offset, value) ==
    LET w == value % 65536
    IN  [view EXCEPT ![offset + 1] = w % 256,
                     ![offset + 2] = w \div 256]

\* DataView.setInt16(offset, value, true) of an integer: two's complement
SetInt16(view, offset, value) == SetUint16(view, offset, value)

\* writeString, the string given by its char codes
RECURSIVE WriteString(_, _, _)
WriteString(view, offset, str) ==
    IF str = <<>> THEN view
    ELSE WriteString(SetUint8(view, offset, Head(str)), offset + 1, Tail(str))

\* Math.min(1, x)
MathMin1(x) == IF x = NaN THEN NaN ELSE IF x < Unit THEN x ELSE Unit

\* Math.max(-1, x)
MathMaxNeg1(x) == IF x = NaN THEN NaN ELSE IF x > -Unit THEN x ELSE -Unit

\* Clamp leaving the sample as it is.
Unclamped(x) == x

\* Math.max(-1, Math.min(1, samples[i]))
Clamp(x) == MathMaxNeg1(MathMin1(x))

\* The integer setInt16 stores for s * factor, s a sample in units: ToInt16
\* truncates toward zero (and takes the result modulo 2^16, see SetInt16).
\* The whole and the fractional part of |s| are scaled one after the other.
Truncate(s, factor) ==
    LET a == IF s >= 0 THEN s ELSE -s
        q == (a \div Unit) * factor + ((a % Unit) * factor) \div Unit
    IN  IF s >= 0 THEN q ELSE -q

\* s < 0 ? s * 0x8000 : s * 0x7FFF, as setInt16 converts it; NaN is not
\* below 0, NaN * 0x7FFF is NaN, and setInt16 stores NaN as 0
SampleToInt(x) ==
    LET s == Clamp(x)
    IN  IF s = NaN THEN 0
        ELSE IF s < 0 THEN Truncate(s, 32768)
        ELSE Truncate(s, 32767)

\* floatTo16BitPCM: the loop from index i on
RECURSIVE FloatTo16BitPCM(_, _, _, _)
FloatTo16BitPCM(view, offset, samples, i) ==
    IF i >= Len(samples) THEN view
    ELSE FloatTo16BitPCM(
            SetInt16(view, offset + i * 2, SampleToInt(samples[i + 1])),
            offset, samples, i + 1)

\* InterleaveChannels laying the channels out one after the other.
InterleavePlanar(audioBuffer) ==
    LET numChannels == audioBuffer.numberOfChannels
        length == audioBuffer.length
    IN  [k \in 1 .. length * numChannels |->
            audioBuffer.channelData[(k - 1) \div length][((k - 1) % length) + 1]]

\* The nested loops of interleaveChannels from (i, c) on:
\* interleaved[i * numChannels + c] = channels[c][i]
RECURSIVE InterleaveLoop(_, _, _, _)
InterleaveLoop(interleaved, audioBuffer, i, c) ==
    LET numChannels == audioBuffer.numberOfChannels
    IN  IF i >= audioBuffer.length THEN interleaved
        ELSE IF c >= numChannels
        THEN InterleaveLoop(interleaved, audioBuffer, i + 1, 0)
        ELSE InterleaveLoop(
                [interleaved EXCEPT ![i * numChannels + c + 1] =
                    audioBuffer.channelData[c][i + 1]],
                audioBuffer, i, c + 1)

\* interleaveChannels
InterleaveChannels(audioBuffer) ==
    LET numChannels == audioBuffer.numberOfChannels
        length == audioBuffer.length
        zeros == [k \in 1 .. length * numChannels |-> 0]
    IN  IF numChannels = 1
        THEN audioBuffer.channelData[0]
        ELSE InterleaveLoop(zeros, audioBuffer, 0, 0)

\* encodeWav: the bytes of the ArrayBuffer returned
EncodeWavBytes(audioBuffer) ==
    LET numChannels == audioBuffer.numberOfChannels
        sampleRate == audioBuffer.sampleRate
        bitDepth == 16
        bytesPerSample == bitDepth \div 8
        interleaved == InterleaveChannels(audioBuffer)
        dataSize == Len(interleaved) * bytesPerSample
        v0 == [k \in 1 .. 44 + dataSize |-> 0]
        v1 == WriteString(v0, 0, <<82, 73, 70, 70>>)
        v2 == SetUint32(v1, 4, 36 + dataSize)
        v3 == WriteString(v2, 8, <<87, 65, 86, 69>>)
        v4 == WriteString(v3, 12, <<102, 109, 116, 32>>)
        v5 == SetUint32(v4, 16, 16)
        v6 == SetUint16(v5, 20, 1)
        v7 == SetUint16(v6, 22, numChannels)
        v8 == SetUint32(v7, 24, sampleRate)
        v9 == SetUint32(v8, 28, sampleRate * numChannels * bytesPerSample)
        v10 == SetUint16(v9, 32, numChannels * bytesPerSample)
        v11 == SetUint16(v10, 34, bitDepth)
        v12 == WriteString(v11, 36, <<100, 97, 116, 97>>)
        v13 == SetUint32(v12, 40, dataSize)
    IN  FloatTo16BitPCM(v13, 44, interleaved, 0)

\* encodeWav(audioBuffer)
EncodeWav(audioBuffer) ==
    /\ wav' = [op |-> "encodeWav", audioBuffer |-> audioBuffer,
               bytes |-> EncodeWavBytes(audioBuffer)]
    /\ UNCHANGED <<exportVars, tapVars, uiVars, timing, named, hookVars>>

NextWav == \E audioBuffer \in AudioBuffers : EncodeWav(audioBuffer)

SpecWav == Init /\ [][NextWav]_vars

\* ------------------------------------------------ ExportManager.sanitizeName
\* A string is the sequence of its UTF-16 code units.
\* the longest name drawn in full from NameUnits
MaxNameLen == 2
\* substring(0, 50)
NameLimit == 50

\* 'a', 'Z', '0', '-', '_', ' ', '!', '@', '{' and the first code unit of an
\* emoji
NameUnits == <<97, 90, 48, 45, 95, 32, 33, 64, 123, 55357>>

\* "My Song! #1"
MySong == <<77, 121, 32, 83, 111, 110, 103, 33, 32, 35, 49>>

\* a name of n code units running through NameUnits
LongName(n) == [i \in 1 .. n |-> NameUnits[((i - 1) % Len(NameUnits)) + 1]]

\* the lengths around the limit, and 80
LongLengths == {NameLimit - 1, NameLimit, NameLimit + 1, 80}

Names ==
    UNION {[1 .. n -> {NameUnits[i] : i \in 1 .. Len(NameUnits)}] :
                n \in 0 .. MaxNameLen}
        \cup {MySong} \cup {LongName(n) : n \in LongLengths}

\* the class [a-zA-Z0-9-_]
Allowed(unit) ==
    \/ unit \in 97 .. 122
    \/ unit \in 65 .. 90
    \/ unit \in 48 .. 57
    \/ unit = 45
    \/ unit = 95

\* name.replace(/[^a-zA-Z0-9-_]/g, '_')
Replace(name) ==
    [i \in 1 .. Len(name) |-> IF Allowed(name[i]) THEN name[i] ELSE 95]

\* Substring keeping the whole string.
SubstringWhole(str, end) == str

\* str.substring(0, end)
Substring(str, end) ==
    SubSeq(str, 1, IF end < Len(str) THEN end ELSE Len(str))

\* OrExport returning the string as it is.
OrSelf(str) == str

\* str || 'export': the empty string is falsy
OrExport(str) == IF Len(str) = 0 THEN <<101, 120, 112, 111, 114, 116>> ELSE str

\* sanitizeName(name): the string returned
Sanitized(name) == OrExport(Substring(Replace(name), NameLimit))

\* sanitizeName(name)
SanitizeName(name) ==
    /\ named' = [op |-> "sanitizeName", name |-> name,
                 result |-> Sanitized(name)]
    /\ UNCHANGED <<exportVars, tapVars, uiVars, timing, wav, hookVars>>

NextName == \E name \in Names : SanitizeName(name)

SpecName == Init /\ [][NextName]_vars

\* ------------------------------------------------- the prompt and its fix loop
\* What editorRef.current.evaluate() resolves with: success, or failure with
\* an error message, which may be the empty string (err.message of an Error
\* made without one).
EvaluateResults ==
    {[success |-> TRUE, error |-> ""],
     [success |-> FALSE, error |-> "Evaluation error"],
     [success |-> FALSE, error |-> ""]}

\* canRetry: state.retryCount < MAX_RETRIES, computed when useChat() returns
CanRetry(retryCount) == retryCount < MAX_RETRIES

\* Chat's submit with isLoading false calls onSend = handleSendMessage, the
\* callback made in the latest render: it and the evaluateWithRetry it calls
\* hold that render's chat object, canRetry included. chat.sendMessage runs
\* up to its await: setState({ isLoading: true, error: null, retryCount: 0 }).
\* One prompt is followed at a time: the next is sent when the run is over.
HandleSendMessage(prompt) ==
    /\ chat.pc \in {"idle", "done"}
    /\ ~chat.isLoading
    /\ chat' = [chat EXCEPT !.pc = "generating",
                            !.lastPrompt = prompt,
                            !.canRetry = CanRetry(chat.retryCount),
                            !.isLoading = TRUE,
                            !.error = "null",
                            !.retryCount = 0,
                            !.fixCalls = 0,
                            !.evaluations = 0]
    /\ UNCHANGED <<exportVars, tapVars, uiVars, timing, wav, named, hist, hl>>

\* generateCode settles in sendMessage. Code: setState({ isLoading: false,
\* error: null, retryCount: 0 }), and handleSendMessage calls
\* evaluateWithRetry, which runs up to its await of the 100 ms timer (its
\* history.commitToHistory(code) is the commit of the history section).
\* No code ('' or a thrown error): the run is over.
SendMessageSettled(outcome) ==
    /\ chat.pc = "generating"
    /\ chat' = [chat EXCEPT !.pc = IF outcome = "code" THEN "waiting" ELSE "done",
                            !.isLoading = FALSE,
                            !.error = IF outcome = "threw"
                                      THEN "Failed to generate pattern"
                                      ELSE "null",
                            !.retryCount = 0]
    /\ UNCHANGED <<exportVars, tapVars, uiVars, timing, wav, named, hist, hl>>

\* the 100 ms timer of evaluateWithRetry: editorRef.current.evaluate() starts
EvaluateStarts ==
    /\ chat.pc = "waiting"
    /\ chat' = [chat EXCEPT !.pc = "evaluating"]
    /\ UNCHANGED <<exportVars, tapVars, uiVars, timing, wav, named, hist, hl>>

\* evaluate() settles. Success: setIsPlaying(true), return true. Failure with
\* result.error && chat.canRetry: chat.fixCode runs up to its await,
\* setState(prev => ({ isLoading: true, error: null, retryCount:
\* prev.retryCount + 1 })). Otherwise setIsPlaying(false), return false.
EvaluateSettled(res) ==
    /\ chat.pc = "evaluating"
    /\ LET counted == [chat EXCEPT !.evaluations = chat.evaluations + 1]
       IN  IF res.success
           THEN chat' = [counted EXCEPT !.pc = "done", !.isPlaying = TRUE]
           ELSE IF res.error # "" /\ chat.canRetry
           THEN /\ chat.fixCalls < MaxFixCalls
                /\ chat' = [counted EXCEPT !.pc = "fixing",
                                           !.isLoading = TRUE,
                                           !.error = "null",
                                           !.retryCount = chat.retryCount + 1,
                                           !.fixCalls = chat.fixCalls + 1]
           ELSE chat' = [counted EXCEPT !.pc = "done", !.isPlaying = FALSE]
    /\ UNCHANGED <<exportVars, tapVars, uiVars, timing, wav, named, hist, hl>>

\* generateCode settles in fixCode: setState(prev => ({ isLoading: false,
\* error, retryCount: prev.retryCount })). With code, evaluateWithRetry calls
\* itself, the same callback with the same chat object, and runs up to the
\* timer; without, setIsPlaying(false), return false.
FixCodeSettled(outcome) ==
    /\ chat.pc = "fixing"
    /\ chat' = [chat EXCEPT !.pc = IF outcome = "code" THEN "waiting" ELSE "done",
                            !.isLoading = FALSE,
                            !.error = IF outcome = "threw"
                                      THEN "Failed to generate pattern"
                                      ELSE "null",
                            !.isPlaying = IF outcome = "code"
                                          THEN chat.isPlaying
                                          ELSE FALSE]
    /\ UNCHANGED <<exportVars, tapVars, uiVars, timing, wav, named, hist, hl>>

\* what generateCode settles with: code, the empty string, or an error
GenerateOutcomes == {"code", "empty", "threw"}

\* the texts the user submits
Prompts == {"drums", "bass"}

NextChat ==
    \/ \E prompt \in Prompts : HandleSendMessage(prompt)
    \/ \E outcome \in GenerateOutcomes : SendMessageSettled(outcome)
    \/ EvaluateStarts
    \/ \E res \in EvaluateResults : EvaluateSettled(res)
    \/ \E outcome \in GenerateOutcomes : FixCodeSettled(outcome)

SpecChat == Init /\ [][NextChat]_vars

\* ---------------------------------------------------------------- useHistory
\* history[i] of the source is history[i + 1] here: sequences start at 1.

\* newHistory.slice(0, historyIndex + 1) kept whole: nothing is discarded
SliceAll(history, historyIndex) == history

\* session.history.slice(0, session.historyIndex + 1)
Slice(history, historyIndex) == SubSeq(history, 1, historyIndex + 1)

\* the size limit left out
Unlimited(newHistory) == newHistory

\* if (newHistory.length > MAX_HISTORY) newHistory.shift()
LimitHistory(newHistory) ==
    IF Len(newHistory) > MAX_HISTORY THEN Tail(newHistory) ELSE newHistory

\* commitToHistory's map callback on the active session
Commit(session, code) ==
    IF session.history[session.historyIndex + 1] = code
    THEN [session EXCEPT !.code = code]
    ELSE LET newHistory ==
                 LimitHistory(Append(Slice(session.history,
                                           session.historyIndex), code))
         IN  [session EXCEPT !.code = code,
                             !.history = newHistory,
                             !.historyIndex = Len(newHistory) - 1]

\* undo's map callback on the active session
UndoSession(session) ==
    IF session.historyIndex <= 0
    THEN session
    ELSE [session EXCEPT !.code = session.history[session.historyIndex],
                         !.historyIndex = session.historyIndex - 1]

\* redo's map callback on the active session
RedoSession(session) ==
    IF session.historyIndex >= Len(session.history) - 1
    THEN session
    ELSE [session EXCEPT !.code = session.history[session.historyIndex + 2],
                         !.historyIndex = session.historyIndex + 1]

\* the ids of state.sessions, as the Sessions menu lists them
ListedIds == {hist.sessions[i].id : i \in 1 .. Len(hist.sessions)}

\* state.sessions.find(s => s.id === state.activeSessionId) || state.sessions[0]
ActiveSession ==
    IF hist.activeSessionId \in ListedIds
    THEN hist.sessions[CHOOSE i \in 1 .. Len(hist.sessions) :
                           /\ hist.sessions[i].id = hist.activeSessionId
                           /\ \A j \in 1 .. i - 1 :
                                  hist.sessions[j].id # hist.activeSessionId]
    ELSE hist.sessions[1]

\* canUndo, canRedo
CanUndo == ActiveSession.historyIndex > 0
CanRedo == ActiveSession.historyIndex < Len(ActiveSession.history) - 1

notHist == <<exportVars, tapVars, uiVars, timing, wav, named, chat, hl>>

\* setCode(newCode)
SetCode(newCode) ==
    /\ hist' = [hist EXCEPT !.sessions =
                    [i \in 1 .. Len(hist.sessions) |->
                        IF hist.sessions[i].id = hist.activeSessionId
                        THEN [hist.sessions[i] EXCEPT !.code = newCode]
                        ELSE hist.sessions[i]]]
    /\ UNCHANGED notHist

\* Histories grow to MAX_HISTORY in a list of one session and stay short in
\* a longer list.
ShortEnough(session) ==
    Len(hist.sessions) = 1 \/ Len(session.history) <= MaxSharedHistory

\* commitToHistory(code)
CommitToHistory(code) ==
    /\ ShortEnough(Commit(ActiveSession, code))
    /\ hist' = [hist EXCEPT !.sessions =
                    [i \in 1 .. Len(hist.sessions) |->
                        IF hist.sessions[i].id # hist.activeSessionId
                        THEN hist.sessions[i]
                        ELSE Commit(hist.sessions[i], code)]]
    /\ UNCHANGED notHist

\* undo()
Undo ==
    /\ hist' = [hist EXCEPT !.sessions =
                    [i \in 1 .. Len(hist.sessions) |->
                        IF hist.sessions[i].id # hist.activeSessionId
                        THEN hist.sessions[i]
                        ELSE UndoSession(hist.sessions[i])]]
    /\ UNCHANGED notHist

\* redo()
Redo ==
    /\ hist' = [hist EXCEPT !.sessions =
                    [i \in 1 .. Len(hist.sessions) |->
                        IF hist.sessions[i].id # hist.activeSessionId
                        THEN hist.sessions[i]
                        ELSE RedoSession(hist.sessions[i])]]
    /\ UNCHANGED notHist

\* newSession()
NewSession ==
    /\ hist.created < MaxCreated
    /\ Len(ActiveSession.history) <= MaxSharedHistory
    /\ hist' = [sessions |-> <<CreateSession(hist.created + 1)>> \o hist.sessions,
                activeSessionId |-> hist.created + 1,
                created |-> hist.created + 1]
    /\ UNCHANGED notHist

\* switchSession(sessionId), sessionId being the id of a listed session: the
\* menu calls onSwitch(session.id) for a session of the list it rendered.
SwitchSession(sessionId) ==
    /\ sessionId \in ListedIds
    /\ hist' = [hist EXCEPT !.activeSessionId = sessionId]
    /\ UNCHANGED notHist

\* the active id kept whatever was deleted
ActiveKept(activeSessionId, sessionId, remaining) == activeSessionId

\* s.activeSessionId === sessionId ? remaining[0].id : s.activeSessionId
ActiveAfterDelete(activeSessionId, sessionId, remaining) ==
    IF activeSessionId = sessionId THEN remaining[1].id ELSE activeSessionId

\* deleteSession(sessionId), sessionId being the id of a listed session
DeleteSession(sessionId) ==
    /\ sessionId \in ListedIds
    /\ LET remaining == SelectSeq(hist.sessions, LAMBDA x : x.id # sessionId)
       IN  IF Len(remaining) = 0
           THEN /\ hist.created < MaxCreated
                /\ hist' = [sessions |-> <<CreateSession(hist.created + 1)>>,
                            activeSessionId |-> hist.created + 1,
                            created |-> hist.created + 1]
           ELSE hist' = [hist EXCEPT
                            !.sessions = remaining,
                            !.activeSessionId =
                                ActiveAfterDelete(hist.activeSessionId,
                                                  sessionId, remaining)]
    /\ UNCHANGED notHist

\* renameSession(sessionId, name), sessionId being the id of a listed session
RenameSession(sessionId, name) ==
    /\ sessionId \in ListedIds
    /\ hist' = [hist EXCEPT !.sessions =
                    [i \in 1 .. Len(hist.sessions) |->
                        IF hist.sessions[i].id = sessionId
                        THEN [hist.sessions[i] EXCEPT !.name = name]
                        ELSE hist.sessions[i]]]
    /\ UNCHANGED notHist

SessionIds == 1 .. MaxCreated

NextHistory ==
    \/ \E newCode \in Codes : SetCode(newCode)
    \/ \E code \in Codes : CommitToHistory(code)
    \/ Undo
    \/ Redo
    \/ NewSession
    \/ \E sessionId \in SessionIds : SwitchSession(sessionId)
    \/ \E sessionId \in SessionIds : DeleteSession(sessionId)
    \/ \E sessionId \in SessionIds, name \in SessionTitles :
           RenameSession(sessionId, name)

SpecHistory == Init /\ [][NextHistory]_vars

\* ------------------------------------------------- the highlight controller
\* the location sets of the active haps a frame finds
HighlightSets == SUBSET {"bd", "sd"}
\* what the try block of a frame comes to: the locations to dispatch, or an
\* exception before view.dispatch (scheduler.now() or queryArc throwing)
Found ==
    {[throws |-> FALSE, locations |-> h] : h \in HighlightSets}
        \cup {[throws |-> TRUE, locations |-> {}]}

notHl == <<exportVars, tapVars, uiVars, timing, wav, named, chat, hist>>

\* a cancelAnimationFrame that cancels nothing
CancelNothing(pending, id) == pending

\* cancelAnimationFrame(id)
CancelFrame(pending, id) == pending \ {id}

\* requestAnimationFrame(updateHighlights) assigned to animationFrameId
RequestFrame(c) ==
    [c EXCEPT !.animationFrameId = c.requested + 1,
              !.pending = c.pending \cup {c.requested + 1},
              !.requested = c.requested + 1]

\* the repl sets or clears scheduler.pattern
SetPattern(pattern) ==
    /\ hl' = [hl EXCEPT !.pattern = pattern]
    /\ UNCHANGED notHl

\* start(sched)
HlStart ==
    /\ LET c == [hl EXCEPT !.scheduler = "scheduler",
                           !.isRunning = TRUE,
                           !.stopped = FALSE,
                           !.dispatchedSinceStop = FALSE]
       IN  IF hl.animationFrameId = NULL
           THEN /\ hl.requested < MaxFrameRequests
                /\ hl' = RequestFrame(c)
           ELSE hl' = c
    /\ UNCHANGED notHl

\* stop(): the pending frame cancelled, setHighlights.of([]) dispatched
HlStop ==
    /\ hl' = [hl EXCEPT !.isRunning = FALSE,
                        !.pending = IF hl.animationFrameId # NULL
                                    THEN CancelFrame(hl.pending,
                                                     hl.animationFrameId)
                                    ELSE hl.pending,
                        !.animationFrameId = NULL,
                        !.highlights = {},
                        !.stopped = TRUE,
                        !.dispatchedSinceStop = FALSE]
    /\ UNCHANGED notHl

\* invalidate()
HlInvalidate ==
    /\ IF hl.isRunning /\ hl.scheduler # "null" /\ hl.pattern
       THEN /\ hl.requested < MaxFrameRequests
            /\ hl' = RequestFrame(
                         [hl EXCEPT !.pending =
                             IF hl.animationFrameId # NULL
                             THEN CancelFrame(hl.pending, hl.animationFrameId)
                             ELSE hl.pending])
       ELSE UNCHANGED hl
    /\ UNCHANGED notHl

\* The host runs the callback of frame id: updateHighlights, found being
\* what its try block comes to.
UpdateHighlights(id, found) ==
    /\ id \in hl.pending
    /\ LET ran == [hl EXCEPT !.pending = hl.pending \ {id}]
       IN  IF ~hl.isRunning \/ hl.scheduler = "null" \/ ~hl.pattern
           THEN hl' = [ran EXCEPT !.animationFrameId = NULL]
           ELSE /\ hl.requested < MaxFrameRequests
                /\ hl' = RequestFrame(
                             IF found.throws
                             THEN ran
                             ELSE [ran EXCEPT
                                      !.highlights = found.locations,
                                      !.dispatchedSinceStop = hl.stopped])
    /\ UNCHANGED notHl

FrameIds == 1 .. MaxFrameRequests

NextHighlight ==
    \/ \E pattern \in BOOLEAN : SetPattern(pattern)
    \/ HlStart
    \/ HlStop
    \/ HlInvalidate
    \/ \E id \in FrameIds, found \in Found :
           UpdateHighlights(id, found)

SpecHighlight == Init /\ [][NextHighlight]_vars

\* ------------------------------------------------------ export(): the archive
\* session names passed to export(): '', 'My Song! #1' and one of 80 units
SessionNames == {<<>>, MySong, LongName(80)}

\* The entries of the archive call s resolves with when called with
\* sessionName: the folder made by zip.folder(this.sanitizeName(sessionName))
\* and, in it, folder.file('mix.wav', wavData), wavData being encodeWav of
\* the buffer decoded from the Blob that onstop built for call s.
ArchiveEntries(s, sessionName) ==
    {[path |-> <<Sanitized(sessionName)>>, dir |-> TRUE, decodedFrom |-> <<>>],
     [path |-> <<Sanitized(sessionName), "mix.wav">>, dir |-> FALSE,
      decodedFrom |-> blob[s]]}

\* ------------------------------------------------------------ properties
Range(seq) == {seq[i] : i \in 1 .. Len(seq)}

\* The orchestrator's own fields and the recorder objects.
programVars == <<mediaStreamDest, recorder, chunks, recState, onstop,
                 flushPending>>

\* C1: within one export() call the phases passed to onProgress never move
\* backwards: in the call's snapshot log every phase is followed only by
\* phases of the same or a later rank (preparing, recording, encoding,
\* complete).
C1_PhasesInOrder ==
    \A s \in Sessions :
        \A i, j \in 1 .. Len(snapshots[s]) :
            i < j => PhaseRank(snapshots[s][i]) <= PhaseRank(snapshots[s][j])

\* a call that went through all four phases and resolved
C1_Witness ==
    \E s \in Sessions :
        /\ result[s] = "archive"
        /\ Range(snapshots[s]) = {"preparing", "recording", "encoding", "complete"}

\* C2 (as claimed): a call whose recorder delivered no non-empty fragment, and
\* that was neither disposed nor hit by a recorder error, rejects with the
\* empty-capture error ('No audio recorded') and has reported no snapshot with
\* phase encoding.
C2_EmptyCaptureNeverEncoding ==
    \A s \in Sessions :
        ( /\ pc[s] = "settled"
          /\ recState[s] # "none"
          /\ ~gotData[s]
          /\ disposedAt[s] = "none"
          /\ ~errorSeen[s]
          /\ Range(chunks) \subseteq {s} )
        => /\ result[s] = ErrNoAudio
           /\ "encoding" \notin Range(snapshots[s])

\* C3 (as claimed): once the recorder of a call has raised an error event,
\* the call does not go on to decode, encode or bundle, never resolves with
\* an archive, and settles rejected with RecordingError.
C3_RecorderErrorAborts ==
    \A s \in Sessions :
        errorSeen[s] =>
            /\ pc[s] \notin {"decoding", "zipping"}
            /\ result[s] # "archive"
            /\ pc[s] = "settled" => result[s] = "RecordingError"

\* C4 (as claimed): a call whose capture was handed to the decoder (a Blob was
\* built) and that settled without an archive, i.e. whose decode failed,
\* rejected with an error other than the one an empty capture rejects with
\* ('No audio recorded').
C4_DecodeErrorDistinct ==
    \A s \in Sessions :
        (pc[s] = "settled" /\ blob[s] # <<>> /\ result[s] # "archive")
        => result[s] \in Errors \ {ErrNoAudio}

\* C5: an export() call made while no sink is bound rejects with the
\* configuration error ('Recording tap not set up'), has reported preparing
\* and nothing else, and leaves fragments, the held recorder and every
\* recorder object (none created, none started) as they were.
C5_NoSinkRejects ==
    [][\A s \in Sessions :
        (pc[s] = "idle" /\ pc'[s] # "idle" /\ mediaStreamDest = NULL)
        => /\ pc'[s] = "settled"
           /\ result'[s] = ErrTapNotSet
           /\ snapshots'[s] = <<"preparing">>
           /\ chunks' = chunks
           /\ recorder' = recorder
           /\ recState' = recState
           /\ flushPending' = flushPending]_vars

\* a call rejected for the missing sink after dispose() cleared a binding
\* under which an earlier call had created its recorder
C5_Witness ==
    \E s, t \in Sessions :
        /\ result[s] = ErrTapNotSet
        /\ snapshots[s] = <<"preparing">>
        /\ recState[s] = "none"
        /\ recState[t] = "inactive"
        /\ mediaStreamDest = NULL

\* C6 (as claimed): once dispose() has cancelled a call mid-Recording, no
\* step of that call changes the state or the stop handler of another call's
\* recorder or settles another call, the Blob it builds holds no fragment of
\* another recorder, and its recorder adds no fragment to the fragments of a
\* recorder set up later.
C6_DisposedSessionIsolated ==
    [][\A s \in Sessions :
        (disposedAt[s] = "polling" /\ Pending(s))
        => /\ pc'[s] # pc[s]
              => \A r \in Sessions \ {s} :
                    /\ recState'[r] = recState[r]
                    /\ onstop'[r] = onstop[r]
                    /\ result'[r] = result[r]
           /\ Range(blob'[s]) \subseteq {s}
           /\ recorder' # NULL => s \notin Range(chunks')]_vars

\* C7 (as claimed): a call that was pending (waiting for the boundary,
\* recording, awaiting the final flush, or decoding) when dispose() was
\* invoked never resolves with an archive.
C7_DisposedNeverResolves ==
    \A s \in Sessions :
        disposedAt[s] \in {"waiting", "polling", "stopping", "decoding"}
        => result[s] # "archive"

\* C8 (as claimed): after dispose() has stopped an active recorder, fragments
\* stays empty until a later export() sets up its recorder.
C8_NoFragmentAfterDispose ==
    disposeStopped => chunks = <<>>

C10_SettledRetainsNothing ==
    \A s \in Sessions :
        pc[s] = "settled" => chunks = <<>> /\ recorder = NULL

\* C11 (as claimed): every export() call that has settled resolved with the
\* archive or rejected with one of the four error kinds: the configuration
\* error ('Recording tap not set up'), the empty-capture error ('No audio
\* recorded'), DecodeError or RecordingError.
C11_SettlesWithSpecifiedKind ==
    \A s \in Sessions :
        pc[s] = "settled"
        => result[s] \in {"archive", ErrTapNotSet, ErrNoAudio, "DecodeError",
                          "RecordingError"}

\* C12: once a snapshot with phase complete has been reported by an export()
\* call, the call is past every throw: it is pending on the archive or has
\* resolved with it, it never rejects, and it does resolve with the archive.
C12_CompleteThenResolves ==
    /\ [](\A s \in Sessions :
            "complete" \in Range(snapshots[s])
            => /\ pc[s] \in {"zipping", "settled"}
               /\ result[s] \in {"pending", "archive"}
               /\ pc[s] = "settled" => result[s] = "archive")
    /\ \A s \in Sessions :
            ("complete" \in Range(snapshots[s])) ~> (result[s] = "archive")

\* complete has been reported and the archive is still being generated,
\* after dispose() hit the call while it was decoding
C12_Witness ==
    \E s \in Sessions :
        /\ pc[s] = "zipping"
        /\ "complete" \in Range(snapshots[s])
        /\ result[s] = "pending"
        /\ disposedAt[s] = "decoding"

\* C13: within the Recording phase of one export() call the progress values
\* passed to onProgress never decrease from one snapshot to the next, and the
\* snapshot with phase complete carries progress exactly 100.
C13_ProgressMonotone ==
    \A s \in Sessions :
        \A i, j \in 1 .. Len(snapshots[s]) :
            /\ (i < j /\ snapshots[s][i] = "recording"
                      /\ snapshots[s][j] = "recording")
               => details[s][i].progress <= details[s][j].progress
            /\ snapshots[s][i] = "complete" => details[s][i].progress = 100

\* a resolved call whose polling loop reported progress below 100, then a
\* reading past the end of the duration, capped at 100
C13_Witness ==
    \E s \in Sessions :
        /\ result[s] = "archive"
        /\ elapsed[s] > DurationTicks
        /\ \E i, j \in 1 .. Len(snapshots[s]) :
              /\ i < j
              /\ snapshots[s][i] = "recording"
              /\ snapshots[s][j] = "recording"
              /\ details[s][i].progress > 0
              /\ details[s][i].progress < details[s][j].progress
              /\ details[s][j].progress = 100
        /\ details[s][Len(details[s])] = Plain(100)

\* the number of snapshots with the given phase in a call's log
Count(s, phase) ==
    Cardinality({i \in 1 .. Len(snapshots[s]) : snapshots[s][i] = phase})

\* C14 (as claimed): onProgress is invoked at every phase transition of a
\* call and once per polling iteration: the log of a started call begins
\* with preparing; while the call polls, it holds the snapshot of entering
\* Recording and one per checkProgress run; a call past the decoder has
\* reported encoding and complete; and a call that aborted (rejected) has
\* reported the transition to Failed as its last snapshot.
C14_EveryTransitionReported ==
    \A s \in Sessions :
        /\ pc[s] \notin {"idle", "gone"} => snapshots[s][1] = "preparing"
        /\ pc[s] = "polling" => Count(s, "recording") = 2 + polls[s]
        /\ (pc[s] = "zipping" \/ result[s] = "archive")
           => {"encoding", "complete"} \subseteq Range(snapshots[s])
        /\ (pc[s] = "settled" /\ result[s] # "archive")
           => snapshots[s][Len(snapshots[s])] = "failed"

\* C15: over any sequence of startRecording, stopRecording, patchAudioConnect
\* and connect calls the wrapper is installed at most once (once installed it
\* stays: no call uninstalls or re-installs it), and the tap's sink is
\* non-null only while the tap is active.
C15_InstalledOnceSinkOnlyWhileActive ==
    /\ [](/\ installs <= 1
          /\ recordingDestination # NULL => isRecordingActive)
    /\ [][originalConnect # NULL
          => originalConnect' = originalConnect /\ installs' = installs]_vars

\* a second capture has ended and patchAudioConnect() was called again: the
\* one installation is still in place, the tap is inactive with no sink
C15_Witness ==
    /\ last.op = "patchAudioConnect"
    /\ installs = 1
    /\ originalConnect = NATIVE
    /\ sinksCreated = 2
    /\ ~isRecordingActive
    /\ recordingDestination = NULL

\* C16 (as claimed): every call through the installed wrapper performs the
\* original connection first and with the caller's arguments, i.e. the first
\* call it makes to the original has the outcome the original has on the
\* argument list the caller passed, and the wrapper returns (or throws) what
\* the original does on those arguments.
C16_OriginalCalledWithCallerArgs ==
    (last.op = "connect" /\ last.wrapped)
    => /\ NativeConnect(last.calls[1]) = NativeConnect(last.args)
       /\ last.threw = NativeConnect(last.args).threw
       /\ last.value = NativeConnect(last.args).value

\* C17 (as claimed): a call through the wrapper makes a second connection,
\* into the sink, exactly if the tap is active and the destination is the
\* hardware output; while the tap is inactive the call has exactly the
\* effects and the result of the original connect on the same arguments.
C17_MirrorsOnlyWhenActive ==
    (last.op = "connect" /\ last.wrapped)
    => /\ Len(last.calls) = 2 <=> (last.active /\ last.args[1] = HW)
       /\ ~last.active
          => /\ last.threw = NativeConnect(last.args).threw
             /\ last.value = NativeConnect(last.args).value
             /\ last.added = NativeConnect(last.args).added

\* C18: when the mirroring call of a wrapped connect fails, the wrapper still
\* returns the original connection's result without throwing, the primary
\* connection is in the graph, and active and the sink are as before.
C18_MirrorFailureSwallowed ==
    [][\A args \in CallerArgs :
        (Connect(args, TRUE) /\ last'.mirrorFailed)
        => /\ ~last'.threw
           /\ last'.value = NativeConnect(args).value
           /\ args[1] \in graph'
           /\ SinkNode(recordingDestination) \in graph'
              => SinkNode(recordingDestination) \in graph
           /\ isRecordingActive' = isRecordingActive
           /\ recordingDestination' = recordingDestination]_vars

\* a connection to the hardware output whose mirroring failed while the tap
\* was active: the call returned the destination, the sink got no connection
C18_Witness ==
    /\ last.op = "connect"
    /\ last.mirrorFailed
    /\ last.active
    /\ ~last.threw
    /\ last.value = HW
    /\ HW \in graph
    /\ isRecordingActive
    /\ SinkNode(recordingDestination) \notin graph

\* C19: startRecording() with no audio context returns null and leaves the
\* wrapper installation, active and the sink as they were; with a context it
\* creates a sink never used before, stores it, sets active and returns that
\* sink.
C19_StartRecording ==
    [][EditorStartRecording
        => IF audioContextRef = NULL
           THEN /\ last'.value = NULL
                /\ UNCHANGED <<originalConnect, installs, isRecordingActive,
                               recordingDestination>>
           ELSE /\ last'.value # NULL
                /\ last'.value = recordingDestination'
                /\ last'.value > sinksCreated
                /\ isRecordingActive']_vars

\* startRecording() returned the second sink it created, which is the stored
\* one, with the tap active and the wrapper still installed once
C19_Witness ==
    /\ last.op = "startRecording"
    /\ last.value = 2
    /\ recordingDestination = 2
    /\ isRecordingActive
    /\ installs = 1

\* C20 (as claimed): the application never has two export() calls in flight
\* at once on its ExportManager.
C20_OneExportInFlight ==
    Cardinality({s \in Sessions : Pending(s)}) <= 1

\* C21 (as claimed): whenever handleExport calls export(), the steps before
\* it were taken in order (the call has not been made earlier in this run)
\* and a sink is bound to the orchestrator, the tap is active, and the bound
\* sink is the tap's current sink.
C21_ExportAfterSinkBound ==
    [][\A h \in Sessions :
        HandleExportEvaluated(h)
        => /\ pc[h] = "idle"
           /\ mediaStreamDest # NULL
           /\ isRecordingActive
           /\ mediaStreamDest = recordingDestination]_vars

\* C22: the pre-recording wait is the distance from scheduler.now(), read
\* once, to the next cycle boundary, times the cycle period: never negative,
\* 0 on a boundary, less than one cycle period, and 1.4 s for cps = 0.5 and
\* now() = 2.3.
C22_BoundaryWait ==
    timing.op = "export"
    => LET toBoundary == (10 - (timing.now % 10)) % 10
       IN  /\ timing.waitMs * 10 = toBoundary * timing.cycleDurationMs
           /\ timing.waitMs >= 0
           /\ (timing.now % 10) = 0 => timing.waitMs = 0
           /\ timing.waitMs < timing.cycleDurationMs
           /\ (timing.cps = 5 /\ timing.now = 23) => timing.waitMs = 1400

\* cps = 0.5 and now() = 2.3: the wait is 1.4 s
C22_Witness ==
    /\ timing.op = "export"
    /\ timing.cps = 5
    /\ timing.now = 23
    /\ timing.waitMs = 1400

\* C23: the target duration is cycles * (1 / cps) with the scheduler's cps,
\* and with cps undefined or 0 the cycle period is 2 s and the target
\* duration 2 * cycles seconds.
C23_TargetDuration ==
    timing.op = "export"
    => /\ timing.totalDurationMs = timing.cycles * timing.cycleDurationMs
       /\ timing.cps \in {UNDEF, 0}
          => /\ timing.cycleDurationMs = 2000
             /\ timing.totalDurationMs = 2000 * timing.cycles
       /\ timing.cps \notin {UNDEF, 0}
          => /\ timing.cycleDurationMs * timing.cps = 10000
             /\ timing.totalDurationMs * timing.cps = timing.cycles * 10000

\* three cycles with the scheduler's cps at 0: six seconds
C23_Witness ==
    /\ timing.op = "export"
    /\ timing.cps = 0
    /\ timing.cycles = 3
    /\ timing.totalDurationMs = 6000

Uint16At(bytes, offset) == bytes[offset + 1] + 256 * bytes[offset + 2]

Uint32At(bytes, offset) ==
    Uint16At(bytes, offset) + 65536 * Uint16At(bytes, offset + 2)

Int16At(bytes, offset) ==
    IF Uint16At(bytes, offset) >= 32768
    THEN Uint16At(bytes, offset) - 65536
    ELSE Uint16At(bytes, offset)

\* C25: encodeWav returns 44 + 2 * frames * channels bytes with the header
\* 'RIFF', 36 + dataSize, 'WAVE', 'fmt ', 16, format 1, the channel count, the
\* sample rate, byte rate sampleRate * channels * 2, block align
\* channels * 2, bit depth 16, 'data', dataSize = 2 * frames * channels; an
\* empty buffer gives 44 bytes with data size 0.
C25_WavHeader ==
    wav.op = "encodeWav"
    => LET b == wav.bytes
           n == wav.audioBuffer.numberOfChannels
           frames == wav.audioBuffer.length
           rate == wav.audioBuffer.sampleRate
           dataSize == 2 * frames * n
       IN  /\ Len(b) = 44 + dataSize
           /\ \A k \in 1 .. Len(b) : b[k] \in 0 .. 255
           /\ SubSeq(b, 1, 4) = <<82, 73, 70, 70>>
           /\ Uint32At(b, 4) = 36 + dataSize
           /\ SubSeq(b, 9, 12) = <<87, 65, 86, 69>>
           /\ SubSeq(b, 13, 16) = <<102, 109, 116, 32>>
           /\ Uint32At(b, 16) = 16
           /\ Uint16At(b, 20) = 1
           /\ Uint16At(b, 22) = n
           /\ Uint32At(b, 24) = rate
           /\ Uint32At(b, 28) = rate * n * 2
           /\ Uint16At(b, 32) = n * 2
           /\ Uint16At(b, 34) = 16
           /\ SubSeq(b, 37, 40) = <<100, 97, 116, 97>>
           /\ Uint32At(b, 40) = dataSize
           /\ frames = 0 => Len(b) = 44 /\ Uint32At(b, 40) = 0

\* an empty stereo buffer at 44100 Hz encoded to the 44 header bytes, the
\* byte rate 176400 in three bytes
C25_Witness ==
    /\ wav.op = "encodeWav"
    /\ wav.audioBuffer.length = 0
    /\ wav.audioBuffer.numberOfChannels = 2
    /\ wav.audioBuffer.sampleRate = 44100
    /\ Len(wav.bytes) = 44
    /\ SubSeq(wav.bytes, 29, 32) = <<16, 177, 2, 0>>

\* The sample of the input that encodeWav stores at interleaved index k.
SampleAt(k) ==
    LET n == wav.audioBuffer.numberOfChannels
    IN  wav.audioBuffer.channelData[k % n][(k \div n) + 1]

\* C26: each stored sample is the input clamped to [-1, 1] and then scaled by
\* 32768 when negative and by 32767 otherwise (the fraction dropped): a
\* signed 16-bit value, with -1 stored as -32768, 1 as 32767, 0 as 0, and
\* inputs beyond the range stored as the extremes rather than wrapped.
C26_SampleConversion ==
    wav.op = "encodeWav"
    => \A k \in 0 .. wav.audioBuffer.length
                        * wav.audioBuffer.numberOfChannels - 1 :
        LET x == SampleAt(k)
            stored == Int16At(wav.bytes, 44 + 2 * k)
            s == IF x > Unit THEN Unit ELSE IF x < -Unit THEN -Unit ELSE x
        IN  /\ stored \in -32768 .. 32767
            /\ x # NaN
               => /\ s < 0 => stored = Truncate(s, 32768)
                  /\ s >= 0 => stored = Truncate(s, 32767)
                  /\ x = Unit \div 2 => stored = 16383
                  /\ x = -(Unit \div 2) => stored = -16384
                  /\ x = 3 => stored = 1
                  /\ x = -3 => stored = -1
                  /\ x = Unit => stored = 32767
                  /\ x = -Unit => stored = -32768
                  /\ x = 0 => stored = 0
                  /\ x > Unit => stored = 32767
                  /\ x < -Unit => stored = -32768

\* a buffer holding 1.5 and -2, stored as 32767 and -32768
C26_Witness ==
    /\ wav.op = "encodeWav"
    /\ \E j, k \in 0 .. wav.audioBuffer.length
                          * wav.audioBuffer.numberOfChannels - 1 :
        /\ SampleAt(j) = Unit + Unit \div 2
        /\ Int16At(wav.bytes, 44 + 2 * j) = 32767
        /\ SampleAt(k) = -2 * Unit
        /\ Int16At(wav.bytes, 44 + 2 * k) = -32768

\* C27: the sample of channel c at frame i is stored at interleaved index
\* i * N + c, that is at byte offset 44 + 2 * (i * N + c); with one channel
\* the samples are stored in their order.
C27_Interleaving ==
    wav.op = "encodeWav"
    => LET n == wav.audioBuffer.numberOfChannels
           frames == wav.audioBuffer.length
           data == wav.audioBuffer.channelData
       IN  /\ \A c \in 0 .. n - 1, i \in 0 .. frames - 1 :
                Int16At(wav.bytes, 44 + 2 * (i * n + c))
                    = SampleToInt(data[c][i + 1])
           /\ n = 1
              => \A i \in 0 .. frames - 1 :
                    Int16At(wav.bytes, 44 + 2 * i) = SampleToInt(data[0][i + 1])

\* two channels of two frames whose four samples are stored as four
\* different values
C27_Witness ==
    /\ wav.op = "encodeWav"
    /\ wav.audioBuffer.numberOfChannels = 2
    /\ wav.audioBuffer.length = 2
    /\ Cardinality({Int16At(wav.bytes, 44 + 2 * k) : k \in 0 .. 3}) = 4

\* C28: sanitizeName replaces every code unit outside [A-Za-z0-9_-] by '_',
\* keeps at most the first 50, and returns 'export' when nothing is left; the
\* result is not empty, has at most 50 code units, all of them allowed, and
\* sanitizeName maps it to itself.
C28_Sanitize ==
    named.op = "sanitizeName"
    => LET name == named.name
           out == named.result
           kept == IF Len(name) < 50 THEN Len(name) ELSE 50
       IN  /\ kept > 0
              => /\ Len(out) = kept
                 /\ \A i \in 1 .. kept :
                        out[i] = IF Allowed(name[i]) THEN name[i] ELSE 95
           /\ kept = 0 => out = <<101, 120, 112, 111, 114, 116>>
           /\ Len(out) > 0
           /\ Len(out) <= 50
           /\ \A i \in 1 .. Len(out) : Allowed(out[i])
           /\ Sanitized(out) = out

\* a name of 51 code units, some of them not allowed: 50 are kept
C28_Witness ==
    /\ named.op = "sanitizeName"
    /\ Len(named.name) = 51
    /\ \E i \in 1 .. 50 : ~Allowed(named.name[i])
    /\ Len(named.result) = 50

\* C29 (as claimed): sanitize("My Song! #1") is "My_Song__1", sanitize("") is
\* "export", and a name of 80 code units is cut to 50.
C29_ExamplesAsClaimed ==
    named.op = "sanitizeName"
    => /\ named.name = MySong => named.result = <<77, 121, 95, 83, 111, 110, 103, 95, 95, 49>>
       /\ named.name = <<>> => named.result = <<101, 120, 112, 111, 114, 116>>
       /\ Len(named.name) = 80 => Len(named.result) = 50

\* C29 (amended): sanitize("My Song! #1") is "My_Song___1", one '_' for each
\* of ' ', '!', ' ' and '#'; sanitize("") is "export", and a name of 80 code
\* units is cut to 50.
C29_Examples ==
    named.op = "sanitizeName"
    => /\ named.name = MySong => named.result = <<77, 121, 95, 83, 111, 110, 103, 95, 95, 95, 49>>
       /\ named.name = <<>> => named.result = <<101, 120, 112, 111, 114, 116>>
       /\ Len(named.name) = 80 => Len(named.result) = 50

\* sanitize("My Song! #1") returned "My_Song___1"
C29_Witness ==
    /\ named.op = "sanitizeName"
    /\ named.name = MySong
    /\ named.result = <<77, 121, 95, 83, 111, 110, 103, 95, 95, 95, 49>>

\* The files (entries that are not folders) of the archive of call s.
ArchiveFiles(s, sessionName) ==
    {e \in ArchiveEntries(s, sessionName) : ~e.dir}

\* C30 (as claimed): the archive export() resolves with holds exactly one
\* file, at <sanitizeName(sessionName)>/mix.wav, and the file encodes the
\* buffer decoded from the fragments of this call's own recorder.
C30_ArchiveHoldsSessionMix ==
    \A s \in Sessions, sessionName \in SessionNames :
        result[s] = "archive"
        => /\ Cardinality(ArchiveFiles(s, sessionName)) = 1
           /\ \A f \in ArchiveFiles(s, sessionName) :
                /\ f.path = <<Sanitized(sessionName), "mix.wav">>
                /\ f.decodedFrom # <<>>
                /\ Range(f.decodedFrom) \subseteq {s}

\* C31 (as claimed): with the host completing timers, animation frames,
\* recorder events, the decoder and the archive, every export() call that is
\* pending settles, also when dispose() was invoked while it was pending.
C31_EveryCallSettles ==
    \A s \in Sessions : Pending(s) ~> ~Pending(s)

\* C32 (as claimed): while the recorder of an export() call made by
\* handleExport is recording, the tap is active and its sink is the sink
\* bound to the orchestrator.
C32_TapActiveWhileRecording ==
    \A h \in Sessions :
        (hpc[h] = "exporting" /\ recState[h] = "recording")
        => /\ isRecordingActive
           /\ recordingDestination # NULL
           /\ recordingDestination = mediaStreamDest

\* handleExport run h has activated the tap and has not finished.
TapActivatedBy(h) == hpc[h] \in {"timer", "evaluating", "exporting"}

\* C33 (as claimed): every handleExport run that activated the tap reaches
\* its end, where the tap is inactive and has no sink, and then the point
\* where the export progress state is null again.
C33_AttemptDeactivatesTap ==
    \A h \in Sessions :
        /\ TapActivatedBy(h)
           ~> /\ hpc[h] \in {"closing", "done"}
              /\ ~isRecordingActive
              /\ recordingDestination = NULL
        /\ TapActivatedBy(h)
           ~> /\ hpc[h] = "done"
              /\ exportProgress = NoSnapshot

\* ExportDialog: k of the label `Recording k/N`,
\* (progress.currentCycle ?? 0) + 1
LabelCycle(snapshot) ==
    (IF snapshot.currentCycle = NoCycle THEN 0 ELSE snapshot.currentCycle) + 1

\* C34 (as claimed): every recording snapshot has
\* 0 <= currentCycle <= totalCycles - 1, so that the dialog's label
\* `Recording k/N` has 1 <= k <= N, the last recording snapshot included.
C34_CurrentCycleInRange ==
    \A s \in Sessions :
        \A i \in 1 .. Len(details[s]) :
            snapshots[s][i] = "recording"
            => /\ details[s][i].currentCycle \in 0 .. Cycles - 1
               /\ LabelCycle(details[s][i]) \in 1 .. Cycles

\* C35 (as claimed): for one prompt the fix loop calls fixCode at most
\* MAX_RETRIES times and evaluates at most MAX_RETRIES + 1 times, whatever
\* the evaluations and the fix requests return.
C35_FixLoopBounded ==
    /\ chat.fixCalls <= MAX_RETRIES
    /\ chat.evaluations <= MAX_RETRIES + 1

\* C36: from a fresh state, whatever the sequence of setCode,
\* commitToHistory, undo, redo, newSession, switchSession, deleteSession and
\* renameSession, every session has 0 <= historyIndex < history.length and
\* 1 <= history.length <= MAX_HISTORY; and a commit of a new code at the end
\* of a full history drops the oldest entry and appends the code.
SessionInBounds(session) ==
    /\ 0 <= session.historyIndex
    /\ session.historyIndex < Len(session.history)
    /\ 1 <= Len(session.history)
    /\ Len(session.history) <= MAX_HISTORY

C36_HistoryBounded ==
    /\ [](\A i \in 1 .. Len(hist.sessions) : SessionInBounds(hist.sessions[i]))
    /\ [][\A code \in Codes :
            (/\ CommitToHistory(code)
             /\ Len(ActiveSession.history) = MAX_HISTORY
             /\ ActiveSession.historyIndex = MAX_HISTORY - 1
             /\ ActiveSession.history[MAX_HISTORY] # code)
            => ActiveSession'.history
                   = Append(Tail(ActiveSession.history), code)]_vars

\* A full history whose oldest entry has been dropped, in a renamed session
\* that was not the first one.
C36_Witness ==
    /\ ActiveSession.id = 2
    /\ ActiveSession.name = "Beat"
    /\ Len(ActiveSession.history) = MAX_HISTORY
    /\ ActiveSession.history[1] # InitialCode
    /\ ActiveSession.historyIndex = MAX_HISTORY - 1

\* C37: whatever the sequence of newSession, switchSession, deleteSession
\* and renameSession, the session list is not empty and exactly one session
\* of it has the id activeSessionId, the one setCode and commitToHistory
\* update.
C37_ActiveSessionListed ==
    /\ Len(hist.sessions) >= 1
    /\ Cardinality({i \in 1 .. Len(hist.sessions) :
                       hist.sessions[i].id = hist.activeSessionId}) = 1

\* Two sessions, the older one active again, and only it edited.
C37_Witness ==
    /\ Len(hist.sessions) = 2
    /\ hist.activeSessionId = hist.sessions[2].id
    /\ hist.sessions[2].code # InitialCode
    /\ hist.sessions[1].code = InitialCode

\* C38 (as claimed): for the active session with canUndo true, undo()
\* followed at once by redo() gives back the session as it was: history,
\* historyIndex and code.
C38_UndoRedoRestores ==
    CanUndo => RedoSession(UndoSession(ActiveSession)) = ActiveSession

\* C39: commitToHistory(code) with code different from the entry at
\* historyIndex keeps the entries up to historyIndex, appends code (dropping
\* the oldest entry when that makes more than MAX_HISTORY) and leaves
\* historyIndex on the last entry, which is code; with code equal to the
\* entry at historyIndex it leaves history and historyIndex as they were;
\* and it leaves every session but the active one, the list and the active
\* id as they were.
CommitPost(before, after, code) ==
    IF before.history[before.historyIndex + 1] = code
    THEN /\ after.history = before.history
         /\ after.historyIndex = before.historyIndex
    ELSE LET kept == Append(SubSeq(before.history, 1, before.historyIndex + 1),
                            code)
         IN  /\ after.history
                    = IF Len(kept) > MAX_HISTORY THEN Tail(kept) ELSE kept
             /\ after.historyIndex = Len(after.history) - 1
             /\ after.history[after.historyIndex + 1] = code

C39_CommitToHistory ==
    [][\A code \in Codes :
          CommitToHistory(code)
          => /\ hist'.activeSessionId = hist.activeSessionId
             /\ Len(hist'.sessions) = Len(hist.sessions)
             /\ \A i \in 1 .. Len(hist.sessions) :
                    IF hist.sessions[i].id = hist.activeSessionId
                    THEN CommitPost(hist.sessions[i], hist'.sessions[i], code)
                    ELSE hist'.sessions[i] = hist.sessions[i]]_vars

\* A new code committed in the active session, with an edited session
\* beside it.
C39_Witness ==
    /\ Len(hist.sessions) = 2
    /\ hist.activeSessionId = hist.sessions[1].id
    /\ hist.sessions[2].code # InitialCode
    /\ hist.sessions[2].history = <<InitialCode>>
    /\ ActiveSession.history = <<InitialCode, "s(hh*4)">>
    /\ ActiveSession.historyIndex = 1
    /\ ActiveSession.code = "s(hh*4)"

\* C40: for the highlight controller, whatever the sequence of start, stop,
\* invalidate and frame callbacks, at most one animation frame is pending;
\* and from stop() until the next start() the highlight set is empty and no
\* highlight update is dispatched.
C40_OneFrameAndQuietAfterStop ==
    /\ Cardinality(hl.pending) <= 1
    /\ hl.stopped => /\ hl.highlights = {}
                     /\ ~hl.dispatchedSinceStop

\* stop() called with a pattern playing, after a frame callback or
\* invalidate() had requested a further frame: that frame is cancelled.
C40_Witness ==
    /\ hl.stopped
    /\ hl.requested >= 2
    /\ hl.pending = {}
    /\ hl.pattern
    /\ hl.scheduler = "scheduler"

====
